---- MODULE Spec2Model ----
(***************************************************************************)
(* The Setun balanced-ternary emulator (class SetunEmulator) and the       *)
(* timer driver of its application (class SetunApp).                       *)
(*                                                                         *)
(* Every method of SetunEmulator is an operator from an emulator record    *)
(* (the object's fields) to the emulator record after the call; the        *)
(* callbacks a call fires, what each of them finds, what the call threw    *)
(* and what it returned are kept in the record's events / seen / thrown /  *)
(* ok fields.  The actions apply one method to the state variables, which  *)
(* are the object's fields.                                                *)
(***************************************************************************)
EXTENDS Integers, Sequences, FiniteSets, TLC

VARIABLES
    accumulator,            \* this.accumulator
    programCounter,         \* this.programCounter
    instructionRegister,    \* this.instructionRegister
    memory,                 \* this.memory; word a is memory[a + 1]
    callStack,              \* this.callStack
    breakpoints,            \* this.breakpoints
    conditionalBreakpoints, \* this.conditionalBreakpoints
    executionHistory,       \* this.executionHistory
    historyEnabled,         \* this.historyEnabled
    protectedMemory,        \* this.protectedMemory
    memoryAccessCounts,     \* this.memoryAccessCounts
    heatmapEnabled,         \* this.heatmapEnabled
    running,                \* this.running
    instructionCount,       \* this.instructionCount
    hitBreakpoint,          \* this.hitBreakpoint
    watches,                \* this.watches
    emulatorMemorySize,     \* this.memorySize
    executionInterval,      \* SetunApp.executionInterval is not null
    timers,                 \* number of live setInterval timers
    view,                   \* the object returned by getState() that the caller holds
    lastCall,               \* the last call made: its name, result and callbacks
    runlog                  \* the step() calls made since the last loadProgram

emu == <<accumulator, programCounter, instructionRegister, memory, callStack,
         breakpoints, conditionalBreakpoints, executionHistory, historyEnabled,
         protectedMemory, memoryAccessCounts, heatmapEnabled, running,
         instructionCount, hitBreakpoint, watches, emulatorMemorySize>>
app == <<executionInterval, timers, view>>
vars == <<emu, app, lastCall, runlog>>

(***************************************************************************)
(* Sizes.  The program's defaults are 81 words, 10 calls, 1000 snapshots   *)
(* and 10000 instructions; the model keeps their order                     *)
(* (maxHistorySize < maxInstructions) at a size TLC can enumerate.         *)
(***************************************************************************)
memorySize == 8
maxCallDepth == 2
maxHistorySize == 2
maxInstructions == 5
\* the longest run of step() calls that runlog follows
MaxRun == maxInstructions + 2

OPCODES ==
    [HALT |-> 0, ADD |-> 1, SUB |-> -1, LOAD |-> 2, STORE |-> -2, JMP |-> 3,
     JZ |-> 4, JNZ |-> -4, JNP |-> 5, SHL |-> 6, SHR |-> -6, CALL |-> 7,
     RET |-> -7, NEG |-> 8, INC |-> 9, DEC |-> -9, LOADI |-> 10, STOREI |-> -10]

(***************************************************************************)
(* Callbacks and errors.                                                   *)
(***************************************************************************)
Ev(cb, text) ==
    [cb |-> cb, text |-> text, address |-> -1, operator |-> "", value |-> 0]
EvAt(cb, text, address) ==
    [cb |-> cb, text |-> text, address |-> address, operator |-> "", value |-> 0]
StateChange == Ev("onStateChange", "")
NoThrow == [text |-> "", at |-> -1]
Err(text, at) == [text |-> text, at |-> at]

\* A callback is called in the middle of a method: seen keeps, for each
\* callback fired, the program counter and the instruction count it finds.
Fire(m, ev) ==
    [m EXCEPT !.events = Append(@, ev),
              !.seen = Append(@, [programCounter |-> m.programCounter,
                                  instructionCount |-> m.instructionCount])]
Throw(m, e) == [m EXCEPT !.thrown = e]
Return(m, value) == [m EXCEPT !.ok = value]

(***************************************************************************)
(* Numeral codec.  A token is a sequence of one-character strings;         *)
(* "u2212" stands for the alternate minus glyph.                           *)
(***************************************************************************)
RECURSIVE Pow3(_)
Pow3(power) == IF power = 0 THEN 1 ELSE 3 * Pow3(power - 1)

MinusChars == {"-", "u2212", "_"}
PlusChars == {"+", "1"}

\* the character class of validChars, [-\u2212_0+1\s]; " " is whitespace
IsTernaryChar(char) == char \in {"-", "u2212", "_", "0", "+", "1", " "}

\* The value, or the first invalid character met scanning from the right.
RECURSIVE fromBalancedTernaryFrom(_, _, _, _)
fromBalancedTernaryFrom(ternary, i, power, result) ==
    IF i < 1 THEN [ok |-> TRUE, value |-> result, char |-> ""]
    ELSE LET char == ternary[i] IN
         IF char \in MinusChars
         THEN fromBalancedTernaryFrom(ternary, i - 1, power + 1, result - Pow3(power))
         ELSE IF char = "0"
         THEN fromBalancedTernaryFrom(ternary, i - 1, power + 1, result)
         ELSE IF char \in PlusChars
         THEN fromBalancedTernaryFrom(ternary, i - 1, power + 1, result + Pow3(power))
         ELSE [ok |-> FALSE, value |-> 0, char |-> char]

\* a conversion that knows the signs but not the digit '1'
fromBalancedTernarySigns(ternary) ==
    IF Len(ternary) = 0 THEN [ok |-> TRUE, value |-> 0, char |-> ""]
    ELSE IF \E i \in 1..Len(ternary) : ternary[i] = "1"
    THEN [ok |-> FALSE, value |-> 0, char |-> "1"]
    ELSE fromBalancedTernaryFrom(ternary, Len(ternary), 0, 0)

fromBalancedTernary(ternary) ==
    IF Len(ternary) = 0 THEN [ok |-> TRUE, value |-> 0, char |-> ""]
    ELSE fromBalancedTernaryFrom(ternary, Len(ternary), 0, 0)

\* the while loop of toBalancedTernary with the digits in the order found
RECURSIVE toDigitsAppending(_, _)
toDigitsAppending(n, result) ==
    IF ~(n > 0) THEN result
    ELSE LET remainder == n % 3
             quotient == n \div 3
         IN IF remainder = 2
            THEN toDigitsAppending(quotient + 1, Append(result, -1))
            ELSE toDigitsAppending(quotient, Append(result, remainder))

\* the while loop of toBalancedTernary: result.unshift(remainder)
RECURSIVE toDigits(_, _)
toDigits(n, result) ==
    IF ~(n > 0) THEN result
    ELSE LET remainder == n % 3
             quotient == n \div 3
         IN IF remainder = 2
            THEN toDigits(quotient + 1, <<-1>> \o result)
            ELSE toDigits(quotient, <<remainder>> \o result)

\* digits kept as they are for a negative number
applySignNever(result, isNegative) == result

\* if (isNegative) result = result.map(d => -d)
applySign(result, isNegative) ==
    IF isNegative THEN [i \in 1..Len(result) |-> -result[i]] ELSE result

toSymbol(d) == IF d = -1 THEN "-" ELSE IF d = 0 THEN "0" ELSE "+"

toBalancedTernary(decimal) ==
    IF decimal = 0 THEN <<"0">>
    ELSE LET n == IF decimal < 0 THEN -decimal ELSE decimal
             result == applySign(toDigits(n, <<>>), decimal < 0)
         IN [i \in 1..Len(result) |-> toSymbol(result[i])]

\* a validation that lets every token through
validateTernaryAny(str) == TRUE

validateTernary(str) == \A i \in 1..Len(str) : IsTernaryChar(str[i])

(***************************************************************************)
(* The emulator object.                                                    *)
(***************************************************************************)
Zeros(n) == [i \in 1..n |-> 0]

SetunEmulator(size) ==
    [accumulator |-> 0, programCounter |-> 0, instructionRegister |-> 0,
     memory |-> Zeros(size), callStack |-> <<>>, breakpoints |-> {},
     conditionalBreakpoints |-> <<>>, executionHistory |-> <<>>,
     historyEnabled |-> TRUE, protectedMemory |-> {},
     memoryAccessCounts |-> Zeros(size), heatmapEnabled |-> FALSE,
     running |-> FALSE, instructionCount |-> 0, hitBreakpoint |-> FALSE,
     watches |-> <<>>, memorySize |-> size,
     events |-> <<>>, seen |-> <<>>, thrown |-> NoThrow, ok |-> TRUE]

Mem(m, a) == m.memory[a + 1]
InMemory(m, a) == a >= 0 /\ a < Len(m.memory)
Front(s) == SubSeq(s, 1, Len(s) - 1)
Last(s) == s[Len(s)]

clearHistory(m) == [m EXCEPT !.executionHistory = <<>>]

\* a reset that also empties the breakpoint set
resetClearingBreakpoints(m) ==
    Fire([clearHistory(m) EXCEPT
              !.accumulator = 0, !.programCounter = 0,
              !.instructionRegister = 0, !.memory = Zeros(Len(m.memory)),
              !.callStack = <<>>, !.running = FALSE, !.instructionCount = 0,
              !.hitBreakpoint = FALSE, !.breakpoints = {},
              !.memoryAccessCounts = Zeros(Len(m.memoryAccessCounts))],
         StateChange)

reset(m) ==
    Fire([clearHistory(m) EXCEPT
              !.accumulator = 0, !.programCounter = 0,
              !.instructionRegister = 0, !.memory = Zeros(Len(m.memory)),
              !.callStack = <<>>, !.running = FALSE, !.instructionCount = 0,
              !.hitBreakpoint = FALSE,
              !.memoryAccessCounts = Zeros(Len(m.memoryAccessCounts))],
         StateChange)

\* a load that validates the tokens from i on before it writes the first
RECURSIVE loadTokensValidatingFirst(_, _, _)
loadTokensValidatingFirst(m, tokens, i) ==
    LET bad == {j \in i..(Len(tokens) - 1) :
                    j < Len(m.memory) /\ ~validateTernary(tokens[j + 1])}
    IN IF bad # {}
       THEN Throw(m, Err("Invalid ternary at position",
                         CHOOSE j \in bad : \A k \in bad : j <= k))
       ELSE IF ~(i < Len(tokens) /\ i < Len(m.memory)) THEN m
       ELSE loadTokensValidatingFirst(
                [m EXCEPT !.memory[i + 1] = fromBalancedTernary(tokens[i + 1]).value],
                tokens, i + 1)

\* The loop of loadProgram from token i (counted from 0).
RECURSIVE loadTokens(_, _, _)
loadTokens(m, tokens, i) ==
    IF ~(i < Len(tokens) /\ i < Len(m.memory)) THEN m
    ELSE LET token == tokens[i + 1] IN
         IF ~validateTernary(token)
         THEN Throw(m, Err("Invalid ternary at position", i))
         ELSE LET v == fromBalancedTernary(token) IN
              IF ~v.ok THEN Throw(m, Err("Error parsing instruction", i))
              ELSE loadTokens([m EXCEPT !.memory[i + 1] = v.value], tokens, i + 1)

\* a load onto the machine as it is
loadProgramWithoutReset(m, programText) ==
    IF Len(programText) = 0 THEN reset(m) ELSE loadTokens(m, programText, 0)

\* programText is the text split on whitespace: a sequence of tokens.
loadProgram(m, programText) ==
    LET r == reset(m) IN
    IF Len(programText) = 0 THEN r ELSE loadTokens(r, programText, 0)

decodeInstruction(instruction) == [opcode |-> instruction, operand |-> "null"]

\* canWriteToMemory without the look-up in protectedMemory
canWriteToMemoryUnprotected(m, addr) ==
    ~(addr < 0 \/ addr >= Len(m.memory))

canWriteToMemory(m, addr) ==
    IF addr < 0 \/ addr >= Len(m.memory) THEN FALSE
    ELSE addr \notin m.protectedMemory

\* if (this.heatmapEnabled) this.memoryAccessCounts[addr]++
\* a count that also lands in the accumulator
countAccessTouching(m, addr) ==
    IF m.heatmapEnabled
    THEN [m EXCEPT !.memoryAccessCounts[addr + 1] = @ + 1,
                   !.accumulator = @ + 1]
    ELSE m

countAccess(m, addr) ==
    IF m.heatmapEnabled THEN [m EXCEPT !.memoryAccessCounts[addr + 1] = @ + 1]
    ELSE m

\* an instruction that does not move on to its operand word
nextWordStaying(m) == m

\* this.programCounter++, the first statement of every two-word instruction
nextWord(m) == [m EXCEPT !.programCounter = @ + 1]
\* the operand word is inside the memory
hasOperand(m) == m.programCounter < Len(m.memory)

\* this.programCounter = addr - 1 when addr is an address
jumpTo(m, addr) ==
    IF InMemory(m, addr) THEN [m EXCEPT !.programCounter = addr - 1] ELSE m

\* a refused store that puts the program counter back on the opcode
storeAtRewinding(m, addr) ==
    IF canWriteToMemory(m, addr)
    THEN countAccess([m EXCEPT !.memory[addr + 1] = m.accumulator], addr)
    ELSE Throw([m EXCEPT !.programCounter = @ - 1],
               Err("Cannot write to protected memory address", addr))

\* the guarded store shared by STORE and STOREI
storeAt(m, addr) ==
    IF canWriteToMemory(m, addr)
    THEN countAccess([m EXCEPT !.memory[addr + 1] = m.accumulator], addr)
    ELSE Throw(m, Err("Cannot write to protected memory address", addr))

\* a HALT that stops without a callback
execHALTSilent(m) == Return([m EXCEPT !.running = FALSE], FALSE)

\* a HALT that moves on to the next word
execHALTAdvancing(m) ==
    Return(Fire([m EXCEPT !.running = FALSE, !.programCounter = @ + 1],
                Ev("onHalt", "Halt instruction (0) encountered")), FALSE)

execHALT(m) ==
    Return(Fire([m EXCEPT !.running = FALSE],
                Ev("onHalt", "Halt instruction (0) encountered")), FALSE)

execADD(m) ==
    LET n == nextWord(m) IN
    IF hasOperand(n) THEN [n EXCEPT !.accumulator = @ + Mem(n, n.programCounter)]
    ELSE n

execSUB(m) ==
    LET n == nextWord(m) IN
    IF hasOperand(n) THEN [n EXCEPT !.accumulator = @ - Mem(n, n.programCounter)]
    ELSE n

execLOAD(m) ==
    LET n == nextWord(m) IN
    IF hasOperand(n)
    THEN LET addr == Mem(n, n.programCounter) IN
         IF InMemory(n, addr)
         THEN countAccess([n EXCEPT !.accumulator = Mem(n, addr)], addr)
         ELSE n
    ELSE n

execSTORE(m) ==
    LET n == nextWord(m) IN
    IF hasOperand(n)
    THEN LET addr == Mem(n, n.programCounter) IN
         IF InMemory(n, addr) THEN storeAt(n, addr) ELSE n
    ELSE n

execJMP(m) ==
    LET n == nextWord(m) IN
    IF hasOperand(n) THEN jumpTo(n, Mem(n, n.programCounter)) ELSE n

execJZ(m) ==
    LET n == nextWord(m) IN
    IF hasOperand(n) /\ n.accumulator = 0
    THEN jumpTo(n, Mem(n, n.programCounter)) ELSE n

execJNZ(m) ==
    LET n == nextWord(m) IN
    IF hasOperand(n) /\ n.accumulator # 0
    THEN jumpTo(n, Mem(n, n.programCounter)) ELSE n

execJNP(m) ==
    LET n == nextWord(m) IN
    IF hasOperand(n) /\ n.accumulator > 0
    THEN jumpTo(n, Mem(n, n.programCounter)) ELSE n

\* a shift left that doubles
execSHLDoubling(m) == [m EXCEPT !.accumulator = @ * 2]

execSHL(m) == [m EXCEPT !.accumulator = @ * 3]

\* Math.floor(this.accumulator / 3)
execSHR(m) == [m EXCEPT !.accumulator = @ \div 3]

\* the operand's address pushed instead of the one after it
pushReturnOperand(m) == [m EXCEPT !.callStack = Append(@, m.programCounter)]

\* this.callStack.push(this.programCounter + 1)
pushReturn(m) == [m EXCEPT !.callStack = Append(@, m.programCounter + 1)]

\* a CALL without the depth check
execCALLUnchecked(m) ==
    LET n == nextWord(m) IN
    IF hasOperand(n)
    THEN jumpTo(pushReturn(n), Mem(n, n.programCounter))
    ELSE n

execCALL(m) ==
    IF Len(m.callStack) >= maxCallDepth
    THEN Return(Fire([m EXCEPT !.running = FALSE],
                     Ev("onError", "Call stack overflow")), FALSE)
    ELSE LET n == nextWord(m) IN
         IF hasOperand(n)
         THEN jumpTo(pushReturn(n), Mem(n, n.programCounter))
         ELSE n

execRET(m) ==
    IF Len(m.callStack) = 0
    THEN Return(Fire([m EXCEPT !.running = FALSE],
                     Ev("onHalt", "Return with empty call stack")), FALSE)
    ELSE [m EXCEPT !.programCounter = Last(m.callStack) - 1,
                   !.callStack = Front(m.callStack)]

execNEG(m) == [m EXCEPT !.accumulator = -@]
execINC(m) == [m EXCEPT !.accumulator = @ + 1]
execDEC(m) == [m EXCEPT !.accumulator = @ - 1]

execLOADI(m) ==
    LET n == nextWord(m) IN
    IF hasOperand(n)
    THEN LET pointerAddr == Mem(n, n.programCounter) IN
         IF InMemory(n, pointerAddr)
         THEN LET actualAddr == Mem(n, pointerAddr) IN
              IF InMemory(n, actualAddr)
              THEN countAccess([n EXCEPT !.accumulator = Mem(n, actualAddr)],
                               actualAddr)
              ELSE n
         ELSE n
    ELSE n

execSTOREI(m) ==
    LET n == nextWord(m) IN
    IF hasOperand(n)
    THEN LET pointerAddr == Mem(n, n.programCounter) IN
         IF InMemory(n, pointerAddr)
         THEN LET actualAddr == Mem(n, pointerAddr) IN
              IF InMemory(n, actualAddr) THEN storeAt(n, actualAddr) ELSE n
         ELSE n
    ELSE n

\* m.ok is the value returned; m.thrown the error thrown, if any.
\* an unknown opcode that counts up
execDefaultCounting(m) == [m EXCEPT !.accumulator = @ + 1]

\* default: unknown opcode, treated as no operation
execDefault(m) == m

executeInstruction(m, opcode, operand) ==
    CASE opcode = OPCODES.HALT -> execHALT(m)
      [] opcode = OPCODES.ADD -> execADD(m)
      [] opcode = OPCODES.SUB -> execSUB(m)
      [] opcode = OPCODES.LOAD -> execLOAD(m)
      [] opcode = OPCODES.STORE -> execSTORE(m)
      [] opcode = OPCODES.JMP -> execJMP(m)
      [] opcode = OPCODES.JZ -> execJZ(m)
      [] opcode = OPCODES.JNZ -> execJNZ(m)
      [] opcode = OPCODES.JNP -> execJNP(m)
      [] opcode = OPCODES.SHL -> execSHL(m)
      [] opcode = OPCODES.SHR -> execSHR(m)
      [] opcode = OPCODES.CALL -> execCALL(m)
      [] opcode = OPCODES.RET -> execRET(m)
      [] opcode = OPCODES.NEG -> execNEG(m)
      [] opcode = OPCODES.INC -> execINC(m)
      [] opcode = OPCODES.DEC -> execDEC(m)
      [] opcode = OPCODES.LOADI -> execLOADI(m)
      [] opcode = OPCODES.STOREI -> execSTOREI(m)
      [] OTHER -> execDefault(m)

(***************************************************************************)
(* Breakpoints, history, memory protection.                                *)
(***************************************************************************)
addBreakpoint(m, address) ==
    IF address >= 0 /\ address < Len(m.memory)
    THEN Return([m EXCEPT !.breakpoints = @ \cup {address}], TRUE)
    ELSE Return(m, FALSE)

removeBreakpoint(m, address) ==
    Return([m EXCEPT !.breakpoints = @ \ {address}], address \in m.breakpoints)

addConditionalBreakpoint(m, condition) ==
    [m EXCEPT !.conditionalBreakpoints = Append(@, condition)]

removeConditionalBreakpoint(m, index) ==
    IF index >= 0 /\ index < Len(m.conditionalBreakpoints)
    THEN Return([m EXCEPT !.conditionalBreakpoints =
                     SubSeq(@, 1, index) \o SubSeq(@, index + 2, Len(@))], TRUE)
    ELSE Return(m, FALSE)

\* the copy of the machine state that saveStateToHistory builds
snapshot(m) ==
    [accumulator |-> m.accumulator, programCounter |-> m.programCounter,
     instructionRegister |-> m.instructionRegister, memory |-> m.memory,
     callStack |-> m.callStack, instructionCount |-> m.instructionCount]

\* the newest snapshot dropped instead of the oldest
limitHistoryNewest(history) ==
    IF Len(history) > maxHistorySize THEN SubSeq(history, 1, Len(history) - 1)
    ELSE history

\* the size limit left out
limitHistoryUnbounded(history) == history

\* if (this.executionHistory.length > this.maxHistorySize) shift()
limitHistory(history) ==
    IF Len(history) > maxHistorySize THEN Tail(history) ELSE history

saveStateToHistory(m) ==
    [m EXCEPT !.executionHistory = limitHistory(Append(@, snapshot(m)))]

\* the assignments of stepBack without the one to callStack
restoreWithoutCallStack(m, prevState) ==
    [m EXCEPT !.accumulator = prevState.accumulator,
              !.programCounter = prevState.programCounter,
              !.instructionRegister = prevState.instructionRegister,
              !.memory = prevState.memory,
              !.instructionCount = prevState.instructionCount]

\* the assignments of stepBack from the popped snapshot
restore(m, prevState) ==
    [m EXCEPT !.accumulator = prevState.accumulator,
              !.programCounter = prevState.programCounter,
              !.instructionRegister = prevState.instructionRegister,
              !.memory = prevState.memory,
              !.callStack = prevState.callStack,
              !.instructionCount = prevState.instructionCount]

\* stepBack with nothing to pop and no check for it: the fields are
\* assigned from a missing snapshot
stepBackEmptyUnchecked(m) ==
    Return(Fire([m EXCEPT !.accumulator = 0, !.programCounter = 0,
                          !.instructionRegister = 0, !.instructionCount = 0],
                StateChange), TRUE)

\* stepBack with nothing to pop
stepBackEmpty(m) ==
    Return(Fire(m, Ev("onError", "No execution history available")), FALSE)

stepBack(m) ==
    IF Len(m.executionHistory) = 0 THEN stepBackEmpty(m)
    ELSE LET prevState == Last(m.executionHistory)
             popped == [m EXCEPT !.executionHistory = Front(@)]
         IN Return(Fire(restore(popped, prevState), StateChange), TRUE)

\* a switch that keeps the snapshots
toggleHistoryKeeping(m, enabled) == [m EXCEPT !.historyEnabled = enabled]

toggleHistory(m, enabled) ==
    LET t == [m EXCEPT !.historyEnabled = enabled] IN
    IF ~enabled THEN clearHistory(t) ELSE t

addWatch(m, watch) == [m EXCEPT !.watches = Append(@, watch)]

removeWatch(m, index) ==
    IF index >= 0 /\ index < Len(m.watches)
    THEN Return([m EXCEPT !.watches =
                    SubSeq(@, 1, index) \o SubSeq(@, index + 2, Len(@))], TRUE)
    ELSE Return(m, FALSE)

\* the value of a watch that names no word is null
getWatchValues(m) ==
    [i \in 1..Len(m.watches) |->
        LET watch == m.watches[i] IN
        [type |-> watch.type, address |-> watch.address, label |-> watch.label,
         value |-> IF watch.type = "accumulator" THEN m.accumulator
                   ELSE IF InMemory(m, watch.address)
                   THEN Mem(m, watch.address) ELSE "null"]]

\* The object getState() returns.  memory, callStack and breakpoints are
\* new containers of numbers; conditionalBreakpoints is a new array of the
\* same condition objects, so entry i of the array is the object at
\* position ref of this.conditionalBreakpoints (ref 0: an object the core
\* no longer holds); watches are new objects.
getState(m) ==
    [held |-> TRUE,
     accumulator |-> m.accumulator, programCounter |-> m.programCounter,
     instructionRegister |-> m.instructionRegister,
     memory |-> m.memory, callStack |-> m.callStack,
     breakpoints |-> m.breakpoints,
     conditionalBreakpoints |->
         [i \in 1..Len(m.conditionalBreakpoints) |->
             [ref |-> i, condition |-> m.conditionalBreakpoints[i]]],
     watches |-> getWatchValues(m),
     historySize |-> Len(m.executionHistory),
     historyEnabled |-> m.historyEnabled,
     instructionCount |-> m.instructionCount,
     running |-> m.running, hitBreakpoint |-> m.hitBreakpoint]

\* a condition without an address carries address -1
conditionTriggered(m, condition) ==
    LET known == \/ condition.type = "accumulator"
                 \/ /\ condition.type = "memory"
                    /\ InMemory(m, condition.address)
        currentValue == IF condition.type = "accumulator" THEN m.accumulator
                        ELSE Mem(m, condition.address)
    IN /\ known
       /\ CASE condition.operator = "==" -> currentValue = condition.value
            [] condition.operator = "!=" -> currentValue # condition.value
            [] condition.operator = ">" -> currentValue > condition.value
            [] condition.operator = "<" -> currentValue < condition.value
            [] condition.operator = ">=" -> currentValue >= condition.value
            [] condition.operator = "<=" -> currentValue <= condition.value
            [] OTHER -> FALSE

\* the last condition triggered instead of the first
checkConditionalBreakpointsLast(m) ==
    LET hits == {i \in 1..Len(m.conditionalBreakpoints) :
                    conditionTriggered(m, m.conditionalBreakpoints[i])}
    IN IF hits = {} THEN 0
       ELSE CHOOSE i \in hits : \A j \in hits : i >= j

\* the position in the list of the first condition triggered, 0 for null
checkConditionalBreakpoints(m) ==
    LET hits == {i \in 1..Len(m.conditionalBreakpoints) :
                    conditionTriggered(m, m.conditionalBreakpoints[i])}
    IN IF hits = {} THEN 0
       ELSE CHOOSE i \in hits : \A j \in hits : i <= j

conditionEvent(condition) ==
    [cb |-> "onHalt",
     text |-> IF condition.type = "accumulator"
              THEN "Conditional breakpoint: Accumulator"
              ELSE "Conditional breakpoint: Memory",
     address |-> condition.address, operator |-> condition.operator,
     value |-> condition.value]

toggleHeatmap(m) ==
    Return([m EXCEPT !.heatmapEnabled = ~@], ~m.heatmapEnabled)

clearHeatmap(m) ==
    [m EXCEPT !.memoryAccessCounts = Zeros(Len(@))]

protectMemoryRange(m, startAddr, endAddr) ==
    [m EXCEPT !.protectedMemory =
        @ \cup {addr \in startAddr..endAddr : InMemory(m, addr)}]

unprotectMemoryRange(m, startAddr, endAddr) ==
    [m EXCEPT !.protectedMemory = @ \ (startAddr..endAddr)]

(***************************************************************************)
(* step(): one fetch, decode and execute.                                  *)
(***************************************************************************)
\* if (this.historyEnabled) this.saveStateToHistory()
recordStep(m) == IF m.historyEnabled THEN saveStateToHistory(m) ELSE m

\* the breakpoint looked up after the fetch
breakpointHaltAfterFetch(m) ==
    Return(Fire([m EXCEPT !.running = FALSE, !.hitBreakpoint = TRUE,
                          !.instructionRegister = Mem(m, m.programCounter)],
                EvAt("onHalt", "Breakpoint hit at address", m.programCounter)),
           FALSE)

\* the halt on an address breakpoint
breakpointHalt(m) ==
    Return(Fire([m EXCEPT !.running = FALSE, !.hitBreakpoint = TRUE],
                EvAt("onHalt", "Breakpoint hit at address", m.programCounter)),
           FALSE)

\* a step that goes on past the last word
finishStepPastEnd(e) ==
    LET a == [e EXCEPT !.programCounter = @ + 1, !.instructionCount = @ + 1]
        triggered == checkConditionalBreakpoints(a)
    IN IF triggered # 0
       THEN Return(Fire(Fire([a EXCEPT !.running = FALSE, !.hitBreakpoint = TRUE],
                             conditionEvent(a.conditionalBreakpoints[triggered])),
                        StateChange), FALSE)
       ELSE Return(Fire(a, StateChange), TRUE)

\* a step that notifies of the change once more after a conditional halt
finishStepNotifyingTwice(e) ==
    LET a == [e EXCEPT !.programCounter = @ + 1, !.instructionCount = @ + 1]
        triggered == checkConditionalBreakpoints(a)
    IN IF triggered # 0
       THEN Return(Fire(Fire(Fire([a EXCEPT !.running = FALSE,
                                            !.hitBreakpoint = TRUE],
                                  conditionEvent(a.conditionalBreakpoints[triggered])),
                             StateChange), StateChange), FALSE)
       ELSE LET n == Fire(a, StateChange) IN
            IF n.programCounter >= Len(n.memory)
            THEN Return(Fire([n EXCEPT !.running = FALSE],
                             Ev("onHalt", "End of memory reached")), FALSE)
            ELSE Return(n, TRUE)

\* after executeInstruction returned true
finishStep(e) ==
    LET a == [e EXCEPT !.programCounter = @ + 1, !.instructionCount = @ + 1]
        triggered == checkConditionalBreakpoints(a)
    IN IF triggered # 0
       THEN Return(Fire(Fire([a EXCEPT !.running = FALSE, !.hitBreakpoint = TRUE],
                             conditionEvent(a.conditionalBreakpoints[triggered])),
                        StateChange), FALSE)
       ELSE LET n == Fire(a, StateChange) IN
            IF n.programCounter >= Len(n.memory)
            THEN Return(Fire([n EXCEPT !.running = FALSE],
                             Ev("onHalt", "End of memory reached")), FALSE)
            ELSE Return(n, TRUE)

\* from the fetch on
fetchExecute(m) ==
    IF m.programCounter < 0 \/ m.programCounter >= Len(m.memory)
    THEN Return(Fire([m EXCEPT !.running = FALSE],
                     Ev("onHalt", "Program counter out of bounds")), FALSE)
    ELSE LET f == [m EXCEPT !.instructionRegister = Mem(m, m.programCounter)]
             d == decodeInstruction(f.instructionRegister)
             e == executeInstruction(f, d.opcode, d.operand)
         IN IF e.thrown # NoThrow THEN e
            ELSE IF ~e.ok THEN e
            ELSE finishStep(e)

\* a limit that lets one more instruction through
limitReachedLate(m) == m.instructionCount > maxInstructions

\* this.instructionCount >= this.maxInstructions
limitReached(m) == m.instructionCount >= maxInstructions

step(m) ==
    IF limitReached(m)
    THEN Return(Fire([m EXCEPT !.running = FALSE],
                     Ev("onError", "Instruction limit reached (possible infinite loop)")),
                FALSE)
    ELSE LET h == recordStep(m) IN
         IF h.programCounter \in h.breakpoints THEN breakpointHalt(h)
         ELSE fetchExecute(h)

(***************************************************************************)
(* Inputs.                                                                 *)
(***************************************************************************)
\* Program texts, as their tokens.
Programs ==
    LET HALT == <<"0">>
        ADD == <<"+">>
        LOAD == <<"+", "-">>
        STORE == <<"-", "+">>
        JMP == <<"+", "0">>
        CALL == <<"+", "-", "+">>
        RET == <<"-", "+", "-">>
        INC == <<"+", "0", "0">>
        STOREI == <<"-", "0", "-">>
        JNZ == <<"-", "-">>
        n0 == <<"0">>
        n1 == <<"1">>
        n3 == <<"+", "0">>
        n4 == <<"+", "+">>
        n5 == <<"+", "-", "-">>
        n7 == <<"+", "-", "+">>
    IN {<<>>,
        \* CALL 4; INC; HALT; CALL 7; RET; RET
        <<CALL, n4, INC, HALT, CALL, n7, RET, RET>>,
        \* INC; STORE 5; LOAD 5; the word stored
        <<INC, STORE, n5, LOAD, n5>>,
        \* INC; STOREI 4; HALT; a pointer to word 5
        <<INC, STOREI, n4, HALT, n5>>,
        \* INC; JMP 0
        <<INC, JMP, n0>>,
        \* CALL 0
        <<CALL, n0>>,
        <<RET>>,
        \* JMP 7; ...; ADD in the last word
        <<JMP, n7, n0, n0, n0, n0, n0, ADD>>,
        \* INC; STORE -1; JNZ -1; CALL -1
        <<INC, STORE, <<"-">>, JNZ, <<"-">>, CALL, <<"-">>>>,
        \* more tokens than words, all of them ternary
        <<JMP, n7, n0, n0, n0, n0, n0, ADD, n3>>,
        \* more tokens than words, the last of them not ternary
        <<INC, JMP, n0, n0, n0, n0, n0, n0, <<"+", "2">>>>,
        \* a token that is not ternary
        <<ADD, <<"+", "2">>, HALT>>,
        \* the Simple Addition example
        <<ADD, n3, ADD, <<"-">>, HALT>>}

BreakAddresses == {0, 4}
ProtectRanges == {<<4, 5>>}
Conditions ==
    {[type |-> "accumulator", address |-> -1, operator |-> ">=", value |-> 1],
     [type |-> "memory", address |-> 5, operator |-> "==", value |-> 1]}
\* the longest list of conditional breakpoints
MaxConditions == 2
Watches ==
    {[type |-> "accumulator", address |-> -1, label |-> "A"],
     [type |-> "memory", address |-> 5, label |-> ""]}
\* the longest list of watches
MaxWatches == 1

(***************************************************************************)
(* The state as an emulator record, and back.                              *)
(***************************************************************************)
This ==
    [accumulator |-> accumulator, programCounter |-> programCounter,
     instructionRegister |-> instructionRegister, memory |-> memory,
     callStack |-> callStack, breakpoints |-> breakpoints,
     conditionalBreakpoints |-> conditionalBreakpoints,
     executionHistory |-> executionHistory, historyEnabled |-> historyEnabled,
     protectedMemory |-> protectedMemory,
     memoryAccessCounts |-> memoryAccessCounts,
     heatmapEnabled |-> heatmapEnabled, running |-> running,
     instructionCount |-> instructionCount, hitBreakpoint |-> hitBreakpoint,
     watches |-> watches, memorySize |-> emulatorMemorySize,
     events |-> <<>>, seen |-> <<>>, thrown |-> NoThrow, ok |-> TRUE]

Becomes(r) ==
    /\ accumulator' = r.accumulator
    /\ programCounter' = r.programCounter
    /\ instructionRegister' = r.instructionRegister
    /\ memory' = r.memory
    /\ callStack' = r.callStack
    /\ breakpoints' = r.breakpoints
    /\ conditionalBreakpoints' = r.conditionalBreakpoints
    /\ executionHistory' = r.executionHistory
    /\ historyEnabled' = r.historyEnabled
    /\ protectedMemory' = r.protectedMemory
    /\ memoryAccessCounts' = r.memoryAccessCounts
    /\ heatmapEnabled' = r.heatmapEnabled
    /\ running' = r.running
    /\ instructionCount' = r.instructionCount
    /\ hitBreakpoint' = r.hitBreakpoint
    /\ watches' = r.watches
    /\ emulatorMemorySize' = r.memorySize

\* what the caller of a method sees
Called(op, r, returns) ==
    [op |-> op,
     ret |-> IF r.thrown # NoThrow THEN "throws"
             ELSE IF ~returns THEN "void"
             ELSE IF r.ok THEN "true" ELSE "false",
     events |-> r.events, seen |-> r.seen, thrown |-> r.thrown]

\* the call fired callback cb with this message
Fired(call, cb, text) ==
    \E i \in 1..Len(call.events) :
        call.events[i].cb = cb /\ call.events[i].text = text

\* no object returned by getState() is held
NoView == [held |-> FALSE]

\* what the caller of a method with an argument sees
CalledWith(op, r, returns, arg) ==
    [op |-> op, arg |-> arg,
     ret |-> Called(op, r, returns).ret,
     events |-> r.events, seen |-> r.seen, thrown |-> r.thrown]

NoRun == [loaded |-> FALSE, pre |-> <<>>, backs |-> 0]

(***************************************************************************)
(* The calls on the emulator.                                              *)
(***************************************************************************)
Init ==
    LET r == SetunEmulator(memorySize) IN
    /\ accumulator = r.accumulator
    /\ programCounter = r.programCounter
    /\ instructionRegister = r.instructionRegister
    /\ memory = r.memory
    /\ callStack = r.callStack
    /\ breakpoints = r.breakpoints
    /\ conditionalBreakpoints = r.conditionalBreakpoints
    /\ executionHistory = r.executionHistory
    /\ historyEnabled = r.historyEnabled
    /\ protectedMemory = r.protectedMemory
    /\ memoryAccessCounts = r.memoryAccessCounts
    /\ heatmapEnabled = r.heatmapEnabled
    /\ running = r.running
    /\ instructionCount = r.instructionCount
    /\ hitBreakpoint = r.hitBreakpoint
    /\ watches = r.watches
    /\ emulatorMemorySize = r.memorySize
    /\ executionInterval = FALSE
    /\ timers = 0
    /\ view = NoView
    /\ lastCall = [op |-> "new", ret |-> "void", events |-> <<>>, thrown |-> NoThrow]
    /\ runlog = NoRun

Step ==
    LET r == step(This) IN
    /\ Becomes(r)
    /\ lastCall' = Called("step", r, TRUE)
    /\ UNCHANGED <<app, runlog>>

StepBack ==
    LET r == stepBack(This) IN
    /\ Becomes(r)
    /\ lastCall' = Called("stepBack", r, TRUE)
    /\ UNCHANGED <<app, runlog>>

Reset ==
    LET r == reset(This) IN
    /\ Becomes(r)
    /\ lastCall' = Called("reset", r, FALSE)
    /\ UNCHANGED <<app, runlog>>

LoadProgram ==
    \E programText \in Programs :
        LET r == loadProgram(This, programText) IN
        /\ Becomes(r)
        /\ lastCall' = CalledWith("loadProgram", r, FALSE, programText)
        /\ UNCHANGED <<app, runlog>>

ToggleHistory ==
    \E enabled \in BOOLEAN :
        LET r == toggleHistory(This, enabled) IN
        /\ Becomes(r)
        /\ lastCall' = Called("toggleHistory", r, FALSE)
        /\ UNCHANGED <<app, runlog>>

AddBreakpoint ==
    \E address \in BreakAddresses :
        LET r == addBreakpoint(This, address) IN
        /\ Becomes(r)
        /\ lastCall' = Called("addBreakpoint", r, TRUE)
        /\ UNCHANGED <<app, runlog>>

RemoveBreakpoint ==
    \E address \in BreakAddresses :
        LET r == removeBreakpoint(This, address) IN
        /\ Becomes(r)
        /\ lastCall' = Called("removeBreakpoint", r, TRUE)
        /\ UNCHANGED <<app, runlog>>

AddConditionalBreakpoint ==
    \E condition \in Conditions :
        /\ Len(conditionalBreakpoints) < MaxConditions
        /\ LET r == addConditionalBreakpoint(This, condition) IN
           /\ Becomes(r)
           /\ lastCall' = Called("addConditionalBreakpoint", r, FALSE)
        /\ UNCHANGED <<app, runlog>>

RemoveConditionalBreakpoint ==
    \E index \in 0..(MaxConditions - 1) :
        LET r == removeConditionalBreakpoint(This, index) IN
        /\ Becomes(r)
        /\ lastCall' = Called("removeConditionalBreakpoint", r, TRUE)
        /\ UNCHANGED <<app, runlog>>

AddWatch ==
    \E watch \in Watches :
        /\ Len(watches) < MaxWatches
        /\ LET r == addWatch(This, watch) IN
           /\ Becomes(r)
           /\ lastCall' = Called("addWatch", r, FALSE)
        /\ UNCHANGED <<app, runlog>>

RemoveWatch ==
    \E index \in 0..(MaxWatches - 1) :
        LET r == removeWatch(This, index) IN
        /\ Becomes(r)
        /\ lastCall' = Called("removeWatch", r, TRUE)
        /\ UNCHANGED <<app, runlog>>

ProtectMemoryRange ==
    \E range \in ProtectRanges :
        LET r == protectMemoryRange(This, range[1], range[2]) IN
        /\ Becomes(r)
        /\ lastCall' = Called("protectMemoryRange", r, FALSE)
        /\ UNCHANGED <<app, runlog>>

UnprotectMemoryRange ==
    \E range \in ProtectRanges :
        LET r == unprotectMemoryRange(This, range[1], range[2]) IN
        /\ Becomes(r)
        /\ lastCall' = Called("unprotectMemoryRange", r, FALSE)
        /\ UNCHANGED <<app, runlog>>

Next ==
    \/ Step
    \/ StepBack
    \/ Reset
    \/ LoadProgram
    \/ ToggleHistory
    \/ AddBreakpoint
    \/ RemoveBreakpoint
    \/ ProtectMemoryRange
    \/ UnprotectMemoryRange

Spec == Init /\ [][Next]_vars

(***************************************************************************)
(* A forward run and its undoing (SpecRun): the caller sets breakpoints and *)
(* protection and loads a program, then calls step() some number of times, *)
(* then calls stepBack() at most as many times.  runlog keeps the state    *)
(* before each step() call of the run (pre) and the number of stepBack()   *)
(* calls made after them (backs).                                          *)
(***************************************************************************)
\* no step() call of the run has been made yet
BeforeRun == runlog.pre = <<>>

RunLoad ==
    \E programText \in Programs :
        LET r == loadProgram(This, programText) IN
        /\ BeforeRun
        /\ Becomes(r)
        /\ lastCall' = Called("loadProgram", r, FALSE)
        /\ runlog' = [loaded |-> r.thrown = NoThrow, pre |-> <<>>, backs |-> 0]
        /\ UNCHANGED app

RunStep ==
    /\ runlog.loaded
    /\ runlog.backs = 0
    /\ Len(runlog.pre) < MaxRun
    /\ LET r == step(This) IN
       /\ Becomes(r)
       /\ lastCall' = Called("step", r, TRUE)
    /\ runlog' = [runlog EXCEPT !.pre = Append(@, snapshot(This))]
    /\ UNCHANGED app

RunStepBack ==
    /\ runlog.loaded
    /\ runlog.backs < Len(runlog.pre)
    /\ LET r == stepBack(This) IN
       /\ Becomes(r)
       /\ lastCall' = Called("stepBack", r, TRUE)
    /\ runlog' = [runlog EXCEPT !.backs = @ + 1]
    /\ UNCHANGED app

RunAddBreakpoint == BeforeRun /\ AddBreakpoint
RunRemoveBreakpoint == BeforeRun /\ RemoveBreakpoint
RunProtectMemoryRange == BeforeRun /\ ProtectMemoryRange
RunUnprotectMemoryRange == BeforeRun /\ UnprotectMemoryRange

NextRun ==
    \/ RunLoad
    \/ RunStep
    \/ RunStepBack
    \/ RunAddBreakpoint
    \/ RunRemoveBreakpoint
    \/ RunProtectMemoryRange
    \/ RunUnprotectMemoryRange

SpecRun == Init /\ [][NextRun]_vars

\* the number of step() calls of the run, and the state now
Steps == Len(runlog.pre)
Now == snapshot(This)
\* the state after step() call i of a run that has not stepped back
After(i) == IF i < Steps THEN runlog.pre[i + 1] ELSE Now
\* step() call i was made below the instruction limit
Recorded(i) == runlog.pre[i].instructionCount < maxInstructions

\* C1 as claimed: after k <= maxHistorySize step() calls and k stepBack()
\* calls, accumulator, programCounter, instructionRegister, memory,
\* callStack and instructionCount are what they were before the first of
\* those step() calls.
C1_StepBackRestores ==
    (runlog.backs >= 1 /\ runlog.backs <= maxHistorySize) =>
        Now = runlog.pre[Steps - runlog.backs + 1]

\* C1 as amended: the same for k step() calls each made with the
\* instruction count below maxInstructions.
C1_StepBackRestoresRecorded ==
    (/\ runlog.backs >= 1
     /\ runlog.backs <= maxHistorySize
     /\ \A i \in (Steps - runlog.backs + 1)..Steps : Recorded(i)) =>
        Now = runlog.pre[Steps - runlog.backs + 1]

C1_Witness ==
    /\ lastCall.op = "stepBack"
    /\ runlog.backs = maxHistorySize
    /\ Steps > runlog.backs
    /\ \A i \in (Steps - runlog.backs + 1)..Steps : Recorded(i)
    /\ Now = runlog.pre[Steps - runlog.backs + 1]
    /\ runlog.pre[Steps].callStack # Now.callStack
    /\ runlog.pre[Steps].instructionCount = Now.instructionCount + 1

\* step() call i of the run executed a CALL with an operand that is an
\* address, at a depth below maxCallDepth: it pushed a return address
IsCall(i) ==
    LET before == runlog.pre[i]
        p == before.programCounter
    IN /\ p >= 0
       /\ p + 1 < Len(before.memory)
       /\ before.memory[p + 1] = OPCODES.CALL
       /\ before.memory[p + 2] >= 0
       /\ before.memory[p + 2] < Len(before.memory)
       /\ Len(After(i).callStack) = Len(before.callStack) + 1

\* the last step() call of the run is the RET matching the CALL of call i:
\* it brought the depth back to what it was before the CALL for the first
\* time
IsMatchingReturn(i) ==
    /\ i < Steps
    /\ Len(Now.callStack) = Len(runlog.pre[i].callStack)
    /\ \A j \in (i + 1)..Steps :
           Len(runlog.pre[j].callStack) > Len(runlog.pre[i].callStack)

\* C6: the RET matching a CALL at p sets the program counter to p + 2 and
\* leaves the call stack as it was before the CALL.
C6_ReturnResumesAfterCall ==
    runlog.backs = 0 =>
        \A i \in 1..Steps :
            (IsCall(i) /\ IsMatchingReturn(i)) =>
                /\ Now.programCounter = runlog.pre[i].programCounter + 2
                /\ Now.callStack = runlog.pre[i].callStack

C6_Witness ==
    /\ runlog.backs = 0
    /\ Steps >= 4
    /\ IsCall(Steps - 3)
    /\ IsCall(Steps - 2)
    /\ IsMatchingReturn(Steps - 3)
    /\ Now.programCounter = runlog.pre[Steps - 3].programCounter + 2
    /\ Len(runlog.pre[Steps - 1].callStack) = maxCallDepth

\* C8 as claimed: after n > maxHistorySize consecutive step() calls on a
\* freshly loaded program the history is the states before the last
\* maxHistorySize of them, in order, the oldest being that of call
\* n - maxHistorySize counted from 0.
C8_HistoryHoldsLastSteps ==
    (runlog.backs = 0 /\ Steps > maxHistorySize) =>
        executionHistory = SubSeq(runlog.pre, Steps - maxHistorySize + 1, Steps)

\* C8 as amended: the same for step() calls each made with the instruction
\* count below maxInstructions.
C8_HistoryHoldsLastRecordedSteps ==
    (/\ runlog.backs = 0
     /\ Steps > maxHistorySize
     /\ \A i \in 1..Steps : Recorded(i)) =>
        executionHistory = SubSeq(runlog.pre, Steps - maxHistorySize + 1, Steps)

C8_Witness ==
    /\ lastCall.op = "step"
    /\ runlog.backs = 0
    /\ Steps = maxHistorySize + 2
    /\ \A i \in 1..Steps : Recorded(i)
    /\ Len(executionHistory) = maxHistorySize
    /\ executionHistory[1] = runlog.pre[3]
    /\ runlog.pre[3] # runlog.pre[2]
    /\ runlog.pre[Steps] # runlog.pre[3]

\* step() call i of the run executed the HALT opcode
HaltedOnHALT(i) ==
    LET s == runlog.pre[i] IN
    /\ s.instructionCount < maxInstructions
    /\ s.programCounter \notin breakpoints
    /\ s.programCounter >= 0
    /\ s.programCounter < Len(s.memory)
    /\ s.memory[s.programCounter + 1] = OPCODES.HALT

\* accumulator, programCounter, memory, callStack and instructionCount agree
SameMachine(s, t) ==
    /\ s.accumulator = t.accumulator
    /\ s.programCounter = t.programCounter
    /\ s.memory = t.memory
    /\ s.callStack = t.callStack
    /\ s.instructionCount = t.instructionCount

\* C18: once a step() of a forward run has executed HALT, that call and
\* every later step() call of the run leave accumulator, programCounter,
\* memory, callStack and instructionCount as they were, and every later
\* call returns false.
C18_HaltIsTerminal ==
    runlog.backs = 0 =>
        \A i \in 1..Steps : HaltedOnHALT(i) =>
            /\ \A j \in i..Steps : SameMachine(After(j), runlog.pre[i])
            /\ lastCall.op = "step" /\ lastCall.ret = "false"

C18_Witness ==
    /\ runlog.backs = 0
    /\ Steps = 5
    /\ HaltedOnHALT(3)
    /\ ~HaltedOnHALT(2)
    /\ accumulator = 1
    /\ lastCall.ret = "false"

(***************************************************************************)
(* A loaded program stepped for ever (SpecLoop): memory protection is set  *)
(* up, a program is loaded, and step() is then the only call made.         *)
(* runlog counts the calls that returned true before the first one that    *)
(* returned false.                                                         *)
(***************************************************************************)
BeforeLoop == ~runlog.loaded

LoopLoad ==
    \E programText \in Programs :
        LET r == loadProgram(This, programText) IN
        /\ BeforeLoop
        /\ Becomes(r)
        /\ lastCall' = Called("loadProgram", r, FALSE)
        /\ runlog' = [loaded |-> r.thrown = NoThrow, pre |-> <<>>, backs |-> 0,
                      returnedTrue |-> 0, returnedFalse |-> FALSE]
        /\ UNCHANGED app

LoopStep ==
    /\ runlog.loaded
    /\ LET r == step(This)
           call == Called("step", r, TRUE)
       IN /\ Becomes(r)
          /\ lastCall' = call
          /\ runlog' = [runlog EXCEPT
                 !.returnedTrue =
                     IF ~runlog.returnedFalse /\ call.ret = "true"
                     THEN @ + 1 ELSE @,
                 !.returnedFalse = @ \/ call.ret = "false"]
    /\ UNCHANGED app

LoopAddBreakpoint == BeforeLoop /\ AddBreakpoint
LoopRemoveBreakpoint == BeforeLoop /\ RemoveBreakpoint
LoopProtectMemoryRange == BeforeLoop /\ ProtectMemoryRange
LoopUnprotectMemoryRange == BeforeLoop /\ UnprotectMemoryRange

NextLoop ==
    \/ LoopLoad
    \/ LoopStep
    \/ LoopAddBreakpoint
    \/ LoopRemoveBreakpoint
    \/ LoopProtectMemoryRange
    \/ LoopUnprotectMemoryRange

\* step() is called again and again
SpecLoop == Init /\ [][NextLoop]_vars /\ WF_vars(LoopStep)

ReturnedFalse == runlog.loaded /\ runlog.returnedFalse

\* C16: when step() is called repeatedly on a loaded program, some call
\* returns false, and at most maxInstructions calls return true before it.
C16_RepeatedStepTerminates ==
    /\ [](runlog.loaded => runlog.returnedTrue <= maxInstructions)
    /\ runlog.loaded ~> ReturnedFalse

C16_Witness ==
    /\ ReturnedFalse
    /\ runlog.returnedTrue = maxInstructions
    /\ protectedMemory # {}
    /\ accumulator = 1
    /\ Fired(lastCall, "onError",
             "Instruction limit reached (possible infinite loop)")

(***************************************************************************)
(* The application and its timer (SpecApp).  An application record holds   *)
(* the emulator record and the timer fields; the emulator's onError and    *)
(* onHalt are handleError and handleHalt, which both call pause().         *)
(***************************************************************************)
\* the most timers the model lets run() start
MaxTimers == 2

ThisApp == [emu |-> This, executionInterval |-> executionInterval, timers |-> timers]

AppBecomes(s) ==
    /\ Becomes(s.emu)
    /\ executionInterval' = s.executionInterval
    /\ timers' = s.timers
    /\ UNCHANGED view

appPause(s) ==
    [s EXCEPT !.emu.running = FALSE,
              !.timers = IF s.executionInterval THEN @ - 1 ELSE @,
              !.executionInterval = FALSE]

\* the emulator after one of its methods ran, its onError and onHalt
\* callbacks handled
handled(s, r) ==
    LET t == [s EXCEPT !.emu = r] IN
    IF \E i \in 1..Len(r.events) : r.events[i].cb \in {"onError", "onHalt"}
    THEN appPause(t) ELSE t

\* catch (e) { this.handleError(e.message) }
caught(s) == appPause(s)

validateSyntax(code) == \A i \in 1..Len(code) : validateTernary(code[i])

\* setInterval(() => { if (!this.emulator.step()) this.pause() }, delay)
startTimer(s) ==
    [s EXCEPT !.timers = @ + 1, !.executionInterval = TRUE]

appRun(s, code) ==
    IF ~validateSyntax(code) THEN s
    ELSE LET l == IF ~s.emu.running /\ s.emu.instructionCount = 0
                  THEN handled(s, loadProgram(s.emu, code)) ELSE s
         IN IF l.emu.thrown # NoThrow THEN caught(l)
            ELSE startTimer([l EXCEPT !.emu.running = TRUE])

appStep(s, code) ==
    IF ~validateSyntax(code) THEN s
    ELSE LET l == IF s.emu.instructionCount = 0
                  THEN handled(s, loadProgram(s.emu, code)) ELSE s
         IN IF l.emu.thrown # NoThrow THEN caught(l)
            ELSE LET t == handled(l, step(l.emu)) IN
                 IF t.emu.thrown # NoThrow THEN caught(t) ELSE t

appReset(s) ==
    LET q == appPause(s) IN handled(q, reset(q.emu))

appStepBack(s) == handled(s, stepBack(s.emu))

\* the timer is started again while the emulator is running
appUpdateSpeed(s) ==
    IF s.emu.running
    THEN startTimer([s EXCEPT !.timers = IF s.executionInterval THEN @ - 1 ELSE @])
    ELSE s

\* a change of size that does not look at the running flag
appChangeMemorySizeUnguarded(s, newSize) ==
    appReset([s EXCEPT !.emu = SetunEmulator(newSize)])

appChangeMemorySize(s, newSize) ==
    IF s.emu.running THEN s
    ELSE appReset([s EXCEPT !.emu = SetunEmulator(newSize)])

\* the callback of the timer; what step() throws leaves the callback
timerTick(s) ==
    LET t == handled(s, step(s.emu)) IN
    IF t.emu.thrown # NoThrow THEN t
    ELSE IF ~t.emu.ok THEN appPause(t)
    ELSE t

AppRun ==
    \E code \in Programs :
        LET s == appRun(ThisApp, code) IN
        /\ timers < MaxTimers
        /\ AppBecomes(s)
        /\ lastCall' = Called("app.run", s.emu, FALSE)
        /\ UNCHANGED runlog

AppStep ==
    \E code \in Programs :
        LET s == appStep(ThisApp, code) IN
        /\ AppBecomes(s)
        /\ lastCall' = Called("app.step", s.emu, FALSE)
        /\ UNCHANGED runlog

AppPause ==
    LET s == appPause(ThisApp) IN
    /\ AppBecomes(s)
    /\ lastCall' = Called("app.pause", s.emu, FALSE)
    /\ UNCHANGED runlog

AppReset ==
    LET s == appReset(ThisApp) IN
    /\ AppBecomes(s)
    /\ lastCall' = Called("app.reset", s.emu, FALSE)
    /\ UNCHANGED runlog

AppStepBack ==
    LET s == appStepBack(ThisApp) IN
    /\ AppBecomes(s)
    /\ lastCall' = Called("app.stepBack", s.emu, FALSE)
    /\ UNCHANGED runlog

AppUpdateSpeed ==
    LET s == appUpdateSpeed(ThisApp) IN
    /\ s.timers <= MaxTimers
    /\ AppBecomes(s)
    /\ lastCall' = Called("app.updateSpeed", s.emu, FALSE)
    /\ UNCHANGED runlog

\* the sizes the memory-size select offers
MemorySizes == {memorySize - 2, memorySize}

AppChangeMemorySize ==
    \E newSize \in MemorySizes :
        LET s == appChangeMemorySize(ThisApp, newSize) IN
        /\ AppBecomes(s)
        /\ lastCall' = Called("app.changeMemorySize", s.emu, FALSE)
        /\ UNCHANGED runlog

TimerTick ==
    /\ timers > 0
    /\ LET s == timerTick(ThisApp) IN
       /\ AppBecomes(s)
       /\ lastCall' = Called("timer", s.emu, FALSE)
    /\ UNCHANGED runlog

NextApp ==
    \/ AppRun
    \/ AppStep
    \/ AppPause
    \/ AppReset
    \/ AppStepBack
    \/ AppUpdateSpeed
    \/ AppChangeMemorySize
    \/ TimerTick
    \/ ProtectMemoryRange
    \/ UnprotectMemoryRange

SpecApp == Init /\ [][NextApp]_vars

\* C5: when a STORE or STOREI of a step() made by the timer of a run
\* targets a protected address, onError fires, the running flag is false
\* afterwards and no timer is left to call step() again.
C5_ProtectedWriteStopsRun ==
    [][(/\ running
        /\ lastCall'.op = "timer"
        /\ lastCall'.thrown.text = "Cannot write to protected memory address") =>
           /\ \E i \in 1..Len(lastCall'.events) :
                  lastCall'.events[i].cb = "onError"
           /\ ~running'
           /\ timers' = 0]_vars

(***************************************************************************)
(* Properties of the calls on the emulator (Spec).                         *)
(***************************************************************************)
\* the call being made is step() and it gets past the instruction limit
\* onto a breakpointed address
StepOnBreakpoint ==
    /\ lastCall'.op = "step"
    /\ instructionCount < maxInstructions
    /\ programCounter \in breakpoints

\* the last call was a step() that halted on the address breakpoint at
\* the program counter
HaltedOnBreakpoint ==
    /\ lastCall.op = "step"
    /\ lastCall.ret = "false"
    /\ \E i \in 1..Len(lastCall.events) :
           lastCall.events[i] =
               EvAt("onHalt", "Breakpoint hit at address", programCounter)

\* C2: a step() called with the program counter on an address breakpoint
\* (and the instruction count below the limit) returns false, fires onHalt,
\* sets hitBreakpoint and leaves accumulator, programCounter,
\* instructionRegister, memory, callStack and instructionCount as they were.
C2_BreakpointHaltsBeforeExecuting ==
    [][StepOnBreakpoint =>
        /\ lastCall'.ret = "false"
        /\ \E i \in 1..Len(lastCall'.events) :
               lastCall'.events[i] =
                   EvAt("onHalt", "Breakpoint hit at address", programCounter)
        /\ hitBreakpoint'
        /\ UNCHANGED <<accumulator, programCounter, instructionRegister,
                       memory, callStack, instructionCount>>]_vars

C2_Witness ==
    /\ HaltedOnBreakpoint
    /\ hitBreakpoint
    /\ programCounter = 4
    /\ callStack # <<>>
    /\ instructionRegister = OPCODES.CALL

\* C3: after a step() has halted on the address breakpoint at A, the next
\* step() call executes the instruction at A: it fetches it and does not
\* halt on the breakpoint again.
C3_ResumeExecutesInstruction ==
    [][(HaltedOnBreakpoint /\ lastCall'.op = "step"
            /\ instructionCount < maxInstructions) =>
        /\ instructionRegister' = memory[programCounter + 1]
        /\ ~Fired(lastCall', "onHalt", "Breakpoint hit at address")]_vars

\* the address a STORE or STOREI at the program counter writes to, -1 when
\* the word there is neither or its operand names no address
StoreTarget ==
    LET operandAt == programCounter + 1
        operand == memory[operandAt + 1]
        inMemory(a) == a >= 0 /\ a < Len(memory)
    IN IF ~inMemory(programCounter) \/ ~inMemory(operandAt) THEN -1
       ELSE IF memory[programCounter + 1] = OPCODES.STORE
       THEN IF inMemory(operand) THEN operand ELSE -1
       ELSE IF memory[programCounter + 1] = OPCODES.STOREI
       THEN IF inMemory(operand) /\ inMemory(memory[operand + 1])
            THEN memory[operand + 1] ELSE -1
       ELSE -1

\* the call being made is step() and it gets to execute the instruction at
\* the program counter
StepExecutes ==
    /\ lastCall'.op = "step"
    /\ instructionCount < maxInstructions
    /\ programCounter \notin breakpoints
    /\ programCounter >= 0
    /\ programCounter < Len(memory)

\* C4: a STORE or STOREI whose target address is protected leaves the word
\* at that address as it was and raises 'Cannot write to protected memory
\* address a'.
C4_ProtectedStoreRejected ==
    [][(StepExecutes /\ StoreTarget \in protectedMemory) =>
        /\ memory'[StoreTarget + 1] = memory[StoreTarget + 1]
        /\ lastCall'.ret = "throws"
        /\ lastCall'.thrown =
               Err("Cannot write to protected memory address", StoreTarget)]_vars

C4_Witness ==
    /\ lastCall.op = "step"
    /\ lastCall.thrown = Err("Cannot write to protected memory address", 5)
    /\ instructionRegister = OPCODES.STOREI
    /\ memory[6] = 0
    /\ accumulator = 1

\* C7: the history never holds more than maxHistorySize snapshots.
C7_HistoryBounded == Len(executionHistory) <= maxHistorySize

C7_Witness ==
    /\ lastCall.op = "step"
    /\ Len(executionHistory) = maxHistorySize
    /\ instructionCount > maxHistorySize

\* C9: a step() that halts on an address breakpoint leaves the history as
\* it was.
C9_BreakpointStepNotRecorded ==
    [][StepOnBreakpoint => executionHistory' = executionHistory]_vars

\* C10: stepBack() with an empty history returns false, fires onError 'No
\* execution history available' and changes none of accumulator,
\* programCounter, instructionRegister, memory, callStack, instructionCount
\* and the history.
C10_StepBackOnEmptyHistory ==
    [][(lastCall'.op = "stepBack" /\ executionHistory = <<>>) =>
        /\ lastCall'.ret = "false"
        /\ Fired(lastCall', "onError", "No execution history available")
        /\ UNCHANGED <<accumulator, programCounter, instructionRegister,
                       memory, callStack, instructionCount,
                       executionHistory>>]_vars

C10_Witness ==
    /\ lastCall.op = "stepBack"
    /\ lastCall.ret = "false"
    /\ Fired(lastCall, "onError", "No execution history available")
    /\ executionHistory = <<>>
    /\ instructionCount > 0

\* the onError and onHalt callbacks of a call
HaltCallbacks(call) ==
    {i \in 1..Len(call.events) : call.events[i].cb \in {"onError", "onHalt"}}

\* C11: a step() that returns false fires exactly one of onError and
\* onHalt; a step() that returns true fires neither.
C11_OneCallbackPerTerminatingStep ==
    lastCall.op = "step" =>
        /\ lastCall.ret = "false" => Cardinality(HaltCallbacks(lastCall)) = 1
        /\ lastCall.ret = "true" => HaltCallbacks(lastCall) = {}

C11_Witness ==
    /\ lastCall.op = "step"
    /\ lastCall.ret = "false"
    /\ Fired(lastCall, "onError", "Call stack overflow")
    /\ Cardinality(HaltCallbacks(lastCall)) = 1

\* the word at the program counter and the word after it
OpcodeAtPC == memory[programCounter + 1]
OperandAtPC == memory[programCounter + 2]

AddressOpcodes ==
    {OPCODES.LOAD, OPCODES.STORE, OPCODES.JMP, OPCODES.JZ, OPCODES.JNZ,
     OPCODES.JNP, OPCODES.CALL, OPCODES.LOADI, OPCODES.STOREI}

\* the call being made is step() and it executes an instruction that takes
\* an address, with an operand word that names no word of memory
StepWithAddressOutOfRange ==
    /\ StepExecutes
    /\ OpcodeAtPC \in AddressOpcodes
    /\ programCounter + 1 < Len(memory)
    /\ (OperandAtPC < 0 \/ OperandAtPC >= Len(memory))
    /\ ~(OpcodeAtPC = OPCODES.CALL /\ Len(callStack) >= maxCallDepth)

\* C12: LOAD, STORE, JMP, JZ, JNZ, JNP, CALL, LOADI and STOREI with an
\* operand address outside the memory raise no error and change none of
\* accumulator, memory and call stack; the program counter moves past the
\* operand word.
C12_AddressOutOfRangeIsNoOp ==
    [][StepWithAddressOutOfRange =>
        /\ lastCall'.ret # "throws"
        /\ ~\E i \in 1..Len(lastCall'.events) : lastCall'.events[i].cb = "onError"
        /\ UNCHANGED <<accumulator, memory, callStack>>
        /\ programCounter' = programCounter + 2]_vars

\* C13: a RET executed with an empty call stack makes step() return false,
\* leaves programCounter and accumulator as they were and fires onError.
C13_ReturnOnEmptyStackIsError ==
    [][(StepExecutes /\ OpcodeAtPC = OPCODES.RET /\ callStack = <<>>) =>
        /\ lastCall'.ret = "false"
        /\ UNCHANGED <<programCounter, accumulator>>
        /\ \E i \in 1..Len(lastCall'.events) : lastCall'.events[i].cb = "onError"]_vars

\* C14: the call stack never holds more than maxCallDepth return addresses,
\* and a CALL executed with maxCallDepth of them returns false, fires
\* onError 'Call stack overflow' and leaves callStack, programCounter,
\* accumulator and memory as they were.
C14_CallDepthBounded ==
    /\ [](Len(callStack) <= maxCallDepth)
    /\ [][(StepExecutes /\ OpcodeAtPC = OPCODES.CALL
              /\ Len(callStack) = maxCallDepth) =>
            /\ lastCall'.ret = "false"
            /\ Fired(lastCall', "onError", "Call stack overflow")
            /\ UNCHANGED <<callStack, programCounter, accumulator, memory>>]_vars

C14_Witness ==
    /\ lastCall.op = "step"
    /\ lastCall.ret = "false"
    /\ Fired(lastCall, "onError", "Call stack overflow")
    /\ Len(callStack) = maxCallDepth
    /\ instructionRegister = OPCODES.CALL

\* C15: instructionCount never exceeds maxInstructions, and a step() called
\* with instructionCount at maxInstructions returns false, fires onError
\* 'Instruction limit reached (possible infinite loop)' and fetches
\* nothing, records nothing and changes no register and no word.
C15_InstructionCountBounded ==
    /\ [](instructionCount <= maxInstructions)
    /\ [][(lastCall'.op = "step" /\ instructionCount = maxInstructions) =>
            /\ lastCall'.ret = "false"
            /\ Fired(lastCall', "onError",
                     "Instruction limit reached (possible infinite loop)")
            /\ UNCHANGED <<accumulator, programCounter, instructionRegister,
                           memory, callStack, instructionCount,
                           executionHistory>>]_vars

C15_Witness ==
    /\ lastCall.op = "step"
    /\ lastCall.ret = "false"
    /\ Fired(lastCall, "onError",
             "Instruction limit reached (possible infinite loop)")
    /\ instructionCount = maxInstructions
    /\ accumulator = maxInstructions - 2

PCInMemory == programCounter >= 0 /\ programCounter < Len(memory)

\* C17: after a step() that returned true the program counter names a word
\* of memory; a program counter outside the memory comes only from a
\* step() that returned false (and stays until a reset or a load); and a
\* step() started with such a program counter returns false with onHalt
\* 'Program counter out of bounds' and fetches nothing.
C17_ProgramCounterInMemoryWhileRunning ==
    /\ []((lastCall.op = "step" /\ lastCall.ret = "true") => PCInMemory)
    /\ [][(~PCInMemory' /\ PCInMemory) =>
              (lastCall'.op = "step" /\ lastCall'.ret = "false")]_vars
    /\ [][(lastCall'.op = "step" /\ instructionCount < maxInstructions
              /\ ~PCInMemory) =>
            /\ lastCall'.ret = "false"
            /\ Fired(lastCall', "onHalt", "Program counter out of bounds")
            /\ UNCHANGED <<instructionRegister, accumulator, programCounter,
                           memory, callStack, instructionCount>>]_vars

C17_Witness ==
    /\ lastCall.op = "step"
    /\ lastCall.ret = "false"
    /\ Fired(lastCall, "onHalt", "Program counter out of bounds")
    /\ programCounter >= memorySize

(***************************************************************************)
(* The debugging calls (SpecDebug): conditional breakpoints and watches    *)
(* are set and removed between loads, steps and resets.                    *)
(***************************************************************************)
\* the programs stepped under the debugging calls: INC; STORE 5; LOAD 5,
\* INC; JMP 0, the Simple Addition example and one of unknown opcodes
DebugPrograms ==
    {<<<<"+", "0", "0">>, <<"-", "+">>, <<"+", "-", "-">>, <<"+", "-">>,
       <<"+", "-", "-">>>>,
     <<<<"+", "0", "0">>, <<"+", "0">>, <<"0">>>>,
     <<<<"+">>, <<"+", "0">>, <<"+">>, <<"-">>, <<"0">>>>,
     \* -3; JMP 7; ...; -3 in the last word
     <<<<"-", "0">>, <<"+", "0">>, <<"+", "-", "+">>, <<"0">>, <<"0">>,
       <<"0">>, <<"0">>, <<"-", "0">>>>,
     \* CALL 0
     <<<<"+", "-", "+">>, <<"0">>>>,
     \* RET
     <<<<"-", "+", "-">>>>}

DebugLoad ==
    \E programText \in DebugPrograms :
        LET r == loadProgram(This, programText) IN
        /\ Becomes(r)
        /\ lastCall' = Called("loadProgram", r, FALSE)
        /\ UNCHANGED <<app, runlog>>

NextDebug ==
    \/ Step
    \/ Reset
    \/ DebugLoad
    \/ AddBreakpoint
    \/ RemoveBreakpoint
    \/ AddConditionalBreakpoint
    \/ RemoveConditionalBreakpoint
    \/ AddWatch
    \/ RemoveWatch

SpecDebug == Init /\ [][NextDebug]_vars

\* C19: reset() zeroes accumulator, programCounter, instructionRegister,
\* every word of memory and instructionCount, empties callStack and the
\* history, and leaves the breakpoint set, the conditional-breakpoint list
\* and the watch list as they were.
C19_ResetKeepsDebugConfiguration ==
    [][lastCall'.op = "reset" =>
        /\ accumulator' = 0
        /\ programCounter' = 0
        /\ instructionRegister' = 0
        /\ Len(memory') = Len(memory)
        /\ \A a \in 1..Len(memory') : memory'[a] = 0
        /\ callStack' = <<>>
        /\ instructionCount' = 0
        /\ executionHistory' = <<>>
        /\ UNCHANGED <<breakpoints, conditionalBreakpoints, watches>>]_vars

C19_Witness ==
    /\ lastCall.op = "reset"
    /\ breakpoints # {}
    /\ Len(conditionalBreakpoints) = MaxConditions
    /\ watches # <<>>
    /\ memory = Zeros(memorySize)
    /\ executionHistory = <<>>

\* the call reported a conditional breakpoint through onHalt
ConditionalHalt(call) ==
    \E i \in 1..Len(call.events) :
        /\ call.events[i].cb = "onHalt"
        /\ call.events[i].text \in {"Conditional breakpoint: Accumulator",
                                    "Conditional breakpoint: Memory"}

\* condition k of the list holds of the accumulator and memory after the call
SatisfiedAfter(k) ==
    conditionTriggered([accumulator |-> accumulator', memory |-> memory'],
                       conditionalBreakpoints[k])

\* C20: a step() reports a conditional breakpoint only when it has executed
\* an instruction and advanced programCounter and instructionCount; it then
\* returns false, reports the first condition of the list that holds of
\* the state after the instruction, and keeps the instruction's effects;
\* and a step() that executed an instruction after which some condition
\* holds does report it.
C20_ConditionalBreakpointAfterExecute ==
    [][lastCall'.op = "step" =>
        LET plain == step([This EXCEPT !.conditionalBreakpoints = <<>>])
            holding == {k \in 1..Len(conditionalBreakpoints) : SatisfiedAfter(k)}
        IN /\ ConditionalHalt(lastCall') =>
                /\ instructionCount' = instructionCount + 1
                /\ lastCall'.ret = "false"
                /\ hitBreakpoint'
                /\ \E k \in holding :
                       /\ \A j \in holding : k <= j
                       /\ \E i \in 1..Len(lastCall'.events) :
                              lastCall'.events[i] =
                                  conditionEvent(conditionalBreakpoints[k])
                /\ Cardinality(HaltCallbacks(lastCall')) = 1
                /\ accumulator' = plain.accumulator
                /\ programCounter' = plain.programCounter
                /\ memory' = plain.memory
                /\ callStack' = plain.callStack
                /\ instructionCount' = plain.instructionCount
           /\ (instructionCount' = instructionCount + 1 /\ holding # {}) =>
                ConditionalHalt(lastCall')]_vars

C20_Witness ==
    /\ lastCall.op = "step"
    /\ lastCall.ret = "false"
    /\ Len(conditionalBreakpoints) = 2
    /\ conditionalBreakpoints[1].type = "memory"
    /\ conditionalBreakpoints[2].type = "accumulator"
    /\ \E i \in 1..Len(lastCall.events) :
           lastCall.events[i] = conditionEvent(conditionalBreakpoints[1])
    /\ accumulator = 1
    /\ memory[6] = 1
    /\ instructionRegister = OPCODES.STORE
    /\ programCounter = 3

(***************************************************************************)
(* Properties of loadProgram (Spec).                                       *)
(***************************************************************************)
\* the symbols of a balanced-ternary numeral and the digits they stand for
DigitOf(char) ==
    IF char \in {"-", "u2212", "_"} THEN -1
    ELSE IF char \in {"+", "1"} THEN 1 ELSE 0

IsNumeral(token) ==
    \A k \in 1..Len(token) : token[k] \in {"-", "u2212", "_", "0", "+", "1"}

\* the integer a numeral stands for, most significant digit first
RECURSIVE ValueOf(_)
ValueOf(token) ==
    IF Len(token) = 0 THEN 0
    ELSE 3 * ValueOf(SubSeq(token, 1, Len(token) - 1)) + DigitOf(token[Len(token)])

\* the index, from 0, of the first token that is no numeral
FirstInvalid(text) ==
    CHOOSE i \in 0..(Len(text) - 1) :
        /\ ~IsNumeral(text[i + 1])
        /\ \A j \in 0..(i - 1) : IsNumeral(text[j + 1])

HasInvalid(text) == \E i \in 1..Len(text) : ~IsNumeral(text[i])

\* the call fails at the first invalid token and loads nothing from it on
FailsAtFirstInvalid(text) ==
    /\ lastCall'.ret = "throws"
    /\ lastCall'.thrown = Err("Invalid ternary at position", FirstInvalid(text))
    /\ \A a \in FirstInvalid(text)..(Len(memory') - 1) : memory'[a + 1] = 0

\* C21 as claimed: loadProgram of a text with an invalid token fails with
\* the index of the first invalid token and processes no token after it.
C21_InvalidTokenFailsLoad ==
    [][(lastCall'.op = "loadProgram" /\ HasInvalid(lastCall'.arg)) =>
          FailsAtFirstInvalid(lastCall'.arg)]_vars

\* C21: loadProgram of a text with an invalid token among the tokens that
\* fit in memory fails with the index of the first invalid token and
\* processes no token after it.
C21_InvalidTokenInMemoryFailsLoad ==
    [][(/\ lastCall'.op = "loadProgram"
        /\ HasInvalid(lastCall'.arg)
        /\ FirstInvalid(lastCall'.arg) < Len(memory)) =>
          FailsAtFirstInvalid(lastCall'.arg)]_vars

C21_Witness ==
    /\ lastCall.op = "loadProgram"
    /\ lastCall.ret = "throws"
    /\ lastCall.thrown = Err("Invalid ternary at position", 1)
    /\ lastCall.arg[2] = <<"+", "2">>
    /\ memory[1] = OPCODES.ADD
    /\ memory[3] = 0

\* C22: after a loadProgram that succeeded, word i of memory is the value
\* of token i for every token that fits, every other word is 0, and
\* accumulator, programCounter, callStack, instructionCount and the
\* history are as after a reset.
C22_LoadFillsMemoryFromReset ==
    [][(lastCall'.op = "loadProgram" /\ lastCall'.ret = "void") =>
        /\ Len(memory') = Len(memory)
        /\ \A a \in 0..(Len(memory') - 1) :
               memory'[a + 1] = IF a < Len(lastCall'.arg)
                                THEN ValueOf(lastCall'.arg[a + 1]) ELSE 0
        /\ accumulator' = 0
        /\ programCounter' = 0
        /\ callStack' = <<>>
        /\ instructionCount' = 0
        /\ executionHistory' = <<>>]_vars

C22_Witness ==
    /\ lastCall.op = "loadProgram"
    /\ lastCall.ret = "void"
    /\ Len(lastCall.arg) > memorySize
    /\ memory[memorySize] = OPCODES.ADD
    /\ memory[1] = OPCODES.JMP
    /\ accumulator = 0

(***************************************************************************)
(* The numeral codec (SpecCodec): an integer is written as a numeral, and  *)
(* the numeral is read back.                                               *)
(***************************************************************************)
\* the integers written are -MaxInteger..MaxInteger
MaxInteger == 60

ToBalancedTernary ==
    \E decimal \in (-MaxInteger)..MaxInteger :
        /\ lastCall' = [op |-> "toBalancedTernary", arg |-> decimal,
                        value |-> toBalancedTernary(decimal)]
        /\ UNCHANGED <<emu, app, runlog>>

FromBalancedTernary ==
    /\ lastCall.op = "toBalancedTernary"
    /\ lastCall' = [op |-> "fromBalancedTernary", arg |-> lastCall.value,
                    value |-> fromBalancedTernary(lastCall.value),
                    written |-> lastCall.arg]
    /\ UNCHANGED <<emu, app, runlog>>

\* the characters tokens are made of: the digits in all their spellings, a
\* character that is no digit, and whitespace
TokenChars == {"-", "u2212", "_", "0", "+", "1", "2", " "}
\* the longest token
MaxTokenLen == 2
Tokens == UNION {[1..n -> TokenChars] : n \in 0..MaxTokenLen}
\* what split(/\s+/) can return
IsSplitToken(token) ==
    Len(token) >= 1 /\ \A i \in 1..Len(token) : token[i] # " "

ValidateTernary ==
    \E str \in Tokens :
        /\ lastCall' = [op |-> "validateTernary", arg |-> str,
                        value |-> validateTernary(str)]
        /\ UNCHANGED <<emu, app, runlog>>

\* the conversion of the string just validated
FromValidatedTernary ==
    /\ lastCall.op = "validateTernary"
    /\ lastCall' = [op |-> "fromValidatedTernary", arg |-> lastCall.arg,
                    value |-> fromBalancedTernary(lastCall.arg),
                    valid |-> lastCall.value]
    /\ UNCHANGED <<emu, app, runlog>>

\* loadProgram of a text of one token
CodecLoadProgram ==
    \E token \in {t \in Tokens : IsSplitToken(t)} :
        LET r == loadProgram(This, <<token>>) IN
        /\ Becomes(r)
        /\ lastCall' = CalledWith("loadProgram", r, FALSE, <<token>>)
        /\ UNCHANGED <<app, runlog>>

NextCodec ==
    \/ ToBalancedTernary
    \/ FromBalancedTernary
    \/ ValidateTernary
    \/ FromValidatedTernary
    \/ CodecLoadProgram

SpecCodec == Init /\ [][NextCodec]_vars

\* C23: reading back the numeral written for n gives n.
C23_RoundTrip ==
    lastCall.op = "fromBalancedTernary" =>
        /\ lastCall.value.ok
        /\ lastCall.value.value = lastCall.written

C23_Witness ==
    /\ lastCall.op = "fromBalancedTernary"
    /\ lastCall.written = -5
    /\ lastCall.arg = <<"-", "+", "+">>
    /\ lastCall.value.value = -5

Sign(n) == IF n < 0 THEN -1 ELSE IF n > 0 THEN 1 ELSE 0

\* C24: the numeral written for 0 is the single digit '0'; the numeral
\* written for n # 0 uses the symbols '-', '0', '+' only, stands for n read
\* most significant digit first, and starts with a non-zero digit of the
\* sign of n.
C24_MinimalNumeral ==
    lastCall.op = "toBalancedTernary" =>
        LET n == lastCall.arg
            numeral == lastCall.value
        IN IF n = 0 THEN numeral = <<"0">>
           ELSE /\ Len(numeral) >= 1
                /\ \A k \in 1..Len(numeral) : numeral[k] \in {"-", "0", "+"}
                /\ ValueOf(numeral) = n
                /\ DigitOf(numeral[1]) = Sign(n)

C24_Witness ==
    /\ lastCall.op = "toBalancedTernary"
    /\ lastCall.arg = -6
    /\ lastCall.value = <<"-", "+", "0">>

(***************************************************************************)
(* Unknown opcodes (SpecDebug).                                            *)
(***************************************************************************)
OpcodeValues == {OPCODES[name] : name \in DOMAIN OPCODES}

\* the call being made is step() and the word it fetches is no opcode
StepFetchesUnknown == StepExecutes /\ OpcodeAtPC \notin OpcodeValues

\* accumulator, memory and callStack stay, the counters move by one
ExecutedAsNoOp ==
    /\ lastCall'.ret # "throws"
    /\ UNCHANGED <<accumulator, memory, callStack>>
    /\ programCounter' = programCounter + 1
    /\ instructionCount' = instructionCount + 1

\* C25 as claimed: a fetched word that is no opcode changes none of
\* accumulator, memory and callStack, fires no callback but onStateChange
\* and moves programCounter and instructionCount by one.
C25_UnknownOpcodeIsNoOp ==
    [][StepFetchesUnknown =>
        /\ ExecutedAsNoOp
        /\ \A i \in 1..Len(lastCall'.events) :
               lastCall'.events[i].cb = "onStateChange"]_vars

\* C25: a fetched word that is no opcode changes none of accumulator,
\* memory and callStack and moves programCounter and instructionCount by
\* one; onError never fires, and onHalt fires only for a conditional
\* breakpoint that holds afterwards or, failing that, for the end of
\* memory when the word was the last one.
C25_UnknownOpcodeIsNoOpUntilHalt ==
    [][StepFetchesUnknown =>
        /\ ExecutedAsNoOp
        /\ \A i \in 1..Len(lastCall'.events) :
               \/ lastCall'.events[i].cb = "onStateChange"
               \/ /\ ConditionalHalt(lastCall')
                  /\ \E k \in 1..Len(conditionalBreakpoints) :
                         /\ SatisfiedAfter(k)
                         /\ lastCall'.events[i] =
                                conditionEvent(conditionalBreakpoints[k])
               \/ /\ ~ConditionalHalt(lastCall')
                  /\ programCounter = Len(memory) - 1
                  /\ lastCall'.events[i] = Ev("onHalt", "End of memory reached")]_vars

C25_Witness ==
    /\ lastCall.op = "step"
    /\ lastCall.ret = "true"
    /\ instructionRegister = -3
    /\ programCounter = 1
    /\ instructionCount = 1
    /\ accumulator = 0

(***************************************************************************)
(* The caller of getState() (SpecView): it keeps the returned object and   *)
(* writes to it and to what it reaches, between calls on the emulator.     *)
(***************************************************************************)
\* the value the caller writes
Scribble == 7
\* the most writes the caller makes to the object it holds
MaxWrites == 1

\* removeConditionalBreakpoint(index): the condition objects after the
\* removed one move down one position in this.conditionalBreakpoints
refsAfterRemove(v, index) ==
    IF ~v.held THEN v
    ELSE [v EXCEPT !.conditionalBreakpoints =
             [i \in 1..Len(@) |->
                 [@[i] EXCEPT !.ref = IF @ = index + 1 THEN 0
                                      ELSE IF @ > index + 1 THEN @ - 1
                                      ELSE @]]]

\* state.conditionalBreakpoints[i].value = value: the object is the one
\* the core holds at position ref
writeCondition(m, v, i, value) ==
    LET ref == v.conditionalBreakpoints[i].ref IN
    IF ref = 0 THEN m
    ELSE [m EXCEPT !.conditionalBreakpoints[ref].value = value]

\* the caller asks for the state once, and counts its writes to it
GetState ==
    /\ ~view.held
    /\ view' = getState(This) @@ [writes |-> 0]
    /\ lastCall' = [op |-> "getState", ret |-> "void", events |-> <<>>,
                    thrown |-> NoThrow]
    /\ UNCHANGED <<emu, executionInterval, timers, runlog>>

\* the programs of five words are loaded before the state is asked for
ViewLoad ==
    \E programText \in DebugPrograms :
        /\ ~view.held
        /\ Len(programText) = 5
        /\ LET r == loadProgram(This, programText) IN
           /\ Becomes(r)
           /\ lastCall' = Called("loadProgram", r, FALSE)
        /\ UNCHANGED <<app, runlog>>

ViewRemoveConditionalBreakpoint ==
    \E index \in 0..(MaxConditions - 1) :
        LET r == removeConditionalBreakpoint(This, index) IN
        /\ Becomes(r)
        /\ view' = IF r.ok THEN refsAfterRemove(view, index) ELSE view
        /\ lastCall' = Called("removeConditionalBreakpoint", r, TRUE)
        /\ UNCHANGED <<executionInterval, timers, runlog>>

\* a write that stays in the object held
Written(op, v) ==
    /\ view.held
    /\ view.writes < MaxWrites
    /\ view' = [v EXCEPT !.writes = @ + 1]
    /\ lastCall' = [op |-> op, ret |-> "void", events |-> <<>>,
                    thrown |-> NoThrow]
    /\ UNCHANGED <<emu, executionInterval, timers, runlog>>

\* state.memory[0] = 7
WriteViewMemory ==
    Written("write state.memory", [view EXCEPT !.memory[1] = Scribble])

\* state.callStack.length = 0
WriteViewCallStack ==
    Written("write state.callStack", [view EXCEPT !.callStack = <<>>])

\* state.breakpoints.add(7)
WriteViewBreakpoints ==
    Written("write state.breakpoints",
            [view EXCEPT !.breakpoints = @ \cup {Scribble}])

\* state.conditionalBreakpoints.pop()
WriteViewConditionList ==
    /\ view.held
    /\ view.conditionalBreakpoints # <<>>
    /\ Written("write state.conditionalBreakpoints",
               [view EXCEPT !.conditionalBreakpoints = Front(@)])

\* state.watches[0].value = 7
WriteViewWatch ==
    /\ view.held
    /\ view.watches # <<>>
    /\ Written("write state.watches", [view EXCEPT !.watches[1].value = Scribble])

\* state.conditionalBreakpoints[i].value = 7
WriteViewCondition ==
    /\ view.held
    /\ view.writes < MaxWrites
    /\ \E i \in 1..Len(view.conditionalBreakpoints) :
           /\ Becomes(writeCondition(This, view, i, Scribble))
           /\ view' = [view EXCEPT
                          !.conditionalBreakpoints[i].condition.value = Scribble,
                          !.writes = @ + 1]
    /\ lastCall' = [op |-> "write state.conditionalBreakpoints[i]",
                    ret |-> "void", events |-> <<>>, thrown |-> NoThrow]
    /\ UNCHANGED <<executionInterval, timers, runlog>>

ViewAddConditionalBreakpoint == ~view.held /\ AddConditionalBreakpoint
ViewAddWatch == ~view.held /\ AddWatch

NextView ==
    \/ ViewLoad
    \/ Step
    \/ ViewAddConditionalBreakpoint
    \/ ViewRemoveConditionalBreakpoint
    \/ ViewAddWatch
    \/ GetState
    \/ WriteViewMemory
    \/ WriteViewCallStack
    \/ WriteViewBreakpoints
    \/ WriteViewConditionList
    \/ WriteViewWatch
    \/ WriteViewCondition

SpecView == Init /\ [][NextView]_vars

\* the call is a write to the object getState() returned
IsViewWrite(call) ==
    call.op \in {"write state.memory", "write state.callStack",
                 "write state.breakpoints", "write state.conditionalBreakpoints",
                 "write state.watches", "write state.conditionalBreakpoints[i]"}

\* C26: no write to the object returned by getState(), or to anything it
\* reaches, changes a field of the emulator.
C26_GetStateIsDeepCopy ==
    [][IsViewWrite(lastCall') => UNCHANGED emu]_vars

(***************************************************************************)
(* Two machines (SpecHeat): this one, whose access tracking is switched on *)
(* and off, and a twin that never tracks.  Both get the same protection,   *)
(* the same program and the same step() calls; runlog holds the twin and   *)
(* what its last call returned.                                            *)
(***************************************************************************)
\* the twin before the first load: this machine, not tracking
Twin ==
    IF runlog.loaded THEN runlog.twin
    ELSE [This EXCEPT !.heatmapEnabled = FALSE,
                      !.memoryAccessCounts = Zeros(Len(@))]

\* the twin after a call, with the call's callbacks and result put away
Settled(r) ==
    [r EXCEPT !.events = <<>>, !.seen = <<>>, !.thrown = NoThrow, !.ok = TRUE]

HeatLoad ==
    \E programText \in Programs :
        LET r == loadProgram(This, programText)
            t == loadProgram(Twin, programText)
        IN /\ Becomes(r)
           /\ lastCall' = Called("loadProgram", r, FALSE)
           /\ runlog' = [loaded |-> TRUE, pre |-> <<>>, backs |-> 0,
                         twin |-> Settled(t),
                         twinCall |-> Called("loadProgram", t, FALSE)]
           /\ UNCHANGED app

HeatStep ==
    /\ runlog.loaded
    /\ LET r == step(This)
           t == step(runlog.twin)
       IN /\ Becomes(r)
          /\ lastCall' = Called("step", r, TRUE)
          /\ runlog' = [runlog EXCEPT !.twin = Settled(t),
                                      !.twinCall = Called("step", t, TRUE)]
    /\ UNCHANGED app

HeatToggleHeatmap ==
    LET r == toggleHeatmap(This) IN
    /\ Becomes(r)
    /\ UNCHANGED <<lastCall, app, runlog>>

HeatClearHeatmap ==
    LET r == clearHeatmap(This) IN
    /\ Becomes(r)
    /\ UNCHANGED <<lastCall, app, runlog>>

HeatProtectMemoryRange == ~runlog.loaded /\ ProtectMemoryRange
HeatUnprotectMemoryRange == ~runlog.loaded /\ UnprotectMemoryRange

NextHeat ==
    \/ HeatLoad
    \/ HeatStep
    \/ HeatToggleHeatmap
    \/ HeatClearHeatmap
    \/ HeatProtectMemoryRange
    \/ HeatUnprotectMemoryRange

SpecHeat == Init /\ [][NextHeat]_vars

\* C27: after every step() the machine that tracks accesses and the twin
\* that does not agree on accumulator, programCounter,
\* instructionRegister, memory, callStack and instructionCount, on what
\* step() returned or threw and on the callbacks it fired.
C27_HeatmapDoesNotAffectExecution ==
    runlog.loaded =>
        /\ snapshot(This) = snapshot(runlog.twin)
        /\ lastCall = runlog.twinCall

C27_Witness ==
    /\ runlog.loaded
    /\ lastCall.op = "step"
    /\ heatmapEnabled
    /\ memoryAccessCounts[6] = 2
    /\ runlog.twin.memoryAccessCounts = Zeros(memorySize)
    /\ accumulator = 1
    /\ memory[6] = 1

(***************************************************************************)
(* History switched off (Spec).                                            *)
(***************************************************************************)
\* C28: switching history recording off empties the history at once; the
\* history is empty in every state where recording is off; and while it is
\* off step() records nothing and stepBack() returns false with onError
\* and restores nothing.
C28_DisabledHistoryIsEmpty ==
    /\ [](~historyEnabled => executionHistory = <<>>)
    /\ [][(lastCall'.op = "toggleHistory" /\ ~historyEnabled') =>
              executionHistory' = <<>>]_vars
    /\ [][(lastCall'.op = "step" /\ ~historyEnabled) =>
              executionHistory' = <<>>]_vars
    /\ [][(lastCall'.op = "stepBack" /\ ~historyEnabled) =>
            /\ lastCall'.ret = "false"
            /\ Fired(lastCall', "onError", "No execution history available")
            /\ UNCHANGED <<accumulator, programCounter, instructionRegister,
                           memory, callStack, instructionCount>>]_vars

C28_Witness ==
    /\ ~historyEnabled
    /\ lastCall.op = "stepBack"
    /\ lastCall.ret = "false"
    /\ executionHistory = <<>>
    /\ instructionCount >= 2
    /\ accumulator = 1

(***************************************************************************)
(* The timer of the application and the memory size (SpecApp).             *)
(***************************************************************************)
\* the driver has stopped: pause() was called, or the step() of a timer
\* tick returned false (it fired onError or onHalt)
DriverStopped ==
    \/ lastCall.op = "app.pause"
    \/ lastCall.op = "timer" /\ lastCall.ret # "throws"
                             /\ HaltCallbacks(lastCall) # {}

\* C29: there is never more than one live timer, and once the driver has
\* stopped there is none, so that no timer calls step() until run() is
\* called again.
C29_OneTimerAndNoneAfterStop ==
    /\ timers <= 1
    /\ DriverStopped => timers = 0

\* C30: changeMemorySize called while the running flag is true changes no
\* field of the emulator, and the length of memory is this.memorySize in
\* every state.
C30_NoResizeWhileRunning ==
    /\ [](Len(memory) = emulatorMemorySize)
    /\ [][(lastCall'.op = "app.changeMemorySize" /\ running) =>
              UNCHANGED emu]_vars

C30_Witness ==
    /\ lastCall.op = "app.changeMemorySize"
    /\ running
    /\ timers = 1
    /\ instructionCount > 0
    /\ Len(memory) = memorySize
    /\ emulatorMemorySize = memorySize

(***************************************************************************)
(* The built-in example programs (SpecExamples): a machine of the default  *)
(* size is built, history and access tracking are switched as the caller   *)
(* likes, one of EXAMPLE_PROGRAMS is loaded and step() is then called      *)
(* again and again.  runlog keeps the name of the example, the state       *)
(* before each step() call (pre) and what each call returned (calls).      *)
(***************************************************************************)
\* constructor(memorySize = 81)
defaultMemorySize == 81

\* The code of each example, as its tokens.
EXAMPLE_PROGRAMS ==
    [addition |->
         \* '+ +0 + - 0'
         <<<<"+">>, <<"+", "0">>, <<"+">>, <<"-">>, <<"0">>>>,
     loadStore |->
         \* '+- +0- +0 -+ +-0 0'
         <<<<"+", "-">>, <<"+", "0", "-">>, <<"+", "0">>, <<"-", "+">>,
           <<"+", "-", "0">>, <<"0">>>>,
     conditional |->
         \* '+ 0 ++ +-- +00 +00 0'
         <<<<"+">>, <<"0">>, <<"+", "+">>, <<"+", "-", "-">>,
           <<"+", "0", "0">>, <<"+", "0", "0">>, <<"0">>>>,
     loop |->
         \* '+00 -- + +0 ---- 0'
         <<<<"+", "0", "0">>, <<"-", "-">>, <<"+">>, <<"+", "0">>,
           <<"-", "-", "-", "-">>, <<"0">>>>,
     shift |->
         \* '+ +0 +-0 -+0 0'
         <<<<"+">>, <<"+", "0">>, <<"+", "-", "0">>, <<"-", "+", "0">>,
           <<"0">>>>,
     subroutine |->
         \* '+-+ +-- +0 +--- + + -+- 0'
         <<<<"+", "-", "+">>, <<"+", "-", "-">>, <<"+", "0">>,
           <<"+", "-", "-", "-">>, <<"+">>, <<"+">>, <<"-", "+", "-">>,
           <<"0">>>>,
     negate |->
         \* '+ +-- +0- 0'
         <<<<"+">>, <<"+", "-", "-">>, <<"+", "0", "-">>, <<"0">>>>]

\* new SetunEmulator()
InitDefault ==
    LET r == SetunEmulator(defaultMemorySize) IN
    /\ accumulator = r.accumulator
    /\ programCounter = r.programCounter
    /\ instructionRegister = r.instructionRegister
    /\ memory = r.memory
    /\ callStack = r.callStack
    /\ breakpoints = r.breakpoints
    /\ conditionalBreakpoints = r.conditionalBreakpoints
    /\ executionHistory = r.executionHistory
    /\ historyEnabled = r.historyEnabled
    /\ protectedMemory = r.protectedMemory
    /\ memoryAccessCounts = r.memoryAccessCounts
    /\ heatmapEnabled = r.heatmapEnabled
    /\ running = r.running
    /\ instructionCount = r.instructionCount
    /\ hitBreakpoint = r.hitBreakpoint
    /\ watches = r.watches
    /\ emulatorMemorySize = r.memorySize
    /\ executionInterval = FALSE
    /\ timers = 0
    /\ view = NoView
    /\ lastCall = [op |-> "new", ret |-> "void", events |-> <<>>, thrown |-> NoThrow]
    /\ runlog = NoRun

ExampleLoad ==
    \E name \in DOMAIN EXAMPLE_PROGRAMS :
        LET r == loadProgram(This, EXAMPLE_PROGRAMS[name]) IN
        /\ ~runlog.loaded
        /\ Becomes(r)
        /\ lastCall' = Called("loadProgram", r, FALSE)
        /\ runlog' = [loaded |-> r.thrown = NoThrow, example |-> name,
                      pre |-> <<>>, calls |-> <<>>, backs |-> 0]
        /\ UNCHANGED app

ExampleStep ==
    /\ runlog.loaded
    /\ Len(runlog.pre) < MaxRun
    /\ LET r == step(This)
           call == Called("step", r, TRUE)
       IN /\ Becomes(r)
          /\ lastCall' = call
          /\ runlog' = [runlog EXCEPT !.pre = Append(@, snapshot(This)),
                                      !.calls = Append(@, call)]
    /\ UNCHANGED app

ExampleToggleHistory == ~runlog.loaded /\ ToggleHistory
ExampleToggleHeatmap == ~runlog.loaded /\ HeatToggleHeatmap

NextExamples ==
    \/ ExampleLoad
    \/ ExampleStep
    \/ ExampleToggleHistory
    \/ ExampleToggleHeatmap

SpecExamples == InitDefault /\ [][NextExamples]_vars

\* the example of this name has been loaded
Example(name) == runlog.loaded /\ runlog.example = name
\* step() call i of the run halted on the HALT opcode
HaltCall(i) ==
    /\ runlog.calls[i].ret = "false"
    /\ runlog.calls[i].events =
           <<Ev("onHalt", "Halt instruction (0) encountered")>>

\* C31: stepping the Shift Operations example, the accumulator is 0 after
\* the load, 3, 9 and 3 after the first three step() calls, which return
\* true, and the fourth call halts on HALT with the accumulator still 3.
C31_ShiftExample ==
    Example("shift") =>
        /\ \A i \in 0..3 :
               i <= Steps => After(i).accumulator = <<0, 3, 9, 3>>[i + 1]
        /\ \A i \in 1..3 : i <= Steps => runlog.calls[i].ret = "true"
        /\ Steps >= 4 => HaltCall(4) /\ After(4).accumulator = 3

C31_Witness ==
    /\ Example("shift")
    /\ Steps = 4
    /\ runlog.pre[3].accumulator = 9
    /\ instructionRegister = OPCODES.HALT
    /\ accumulator = 3
    /\ lastCall.ret = "false"

\* step() call k is the first of the run that returned false
FirstFalse(k) ==
    /\ runlog.calls[k].ret = "false"
    /\ \A i \in 1..(k - 1) : runlog.calls[i].ret = "true"
\* the opcode step() call i of the run fetched
Fetched(i) == runlog.pre[i].memory[runlog.pre[i].programCounter + 1]

\* C32: in the run of the Subroutine Call example up to the first step()
\* that returns false, the first call executes CALL and pushes the address
\* of the word after its operand, a later call executes RET and resumes
\* there, and the run ends on HALT with the accumulator at 2 (ADD 1 twice)
\* and the call stack empty.
C32_SubroutineExample ==
    Example("subroutine") =>
        /\ Steps >= 1 => Fetched(1) = OPCODES.CALL /\ After(1).callStack = <<2>>
        /\ \A k \in 1..Steps : FirstFalse(k) =>
               /\ HaltCall(k)
               /\ \E i \in 1..(k - 1) :
                      Fetched(i) = OPCODES.RET /\ After(i).programCounter = 2
               /\ After(k).accumulator = 2
               /\ After(k).callStack = <<>>

\* C33: every example, stepped again and again, stops on the HALT opcode:
\* no step() call throws, the first call that returns false is a HALT
\* (onHalt 'Halt instruction (0) encountered'), and it comes before the
\* instruction limit is reached.
C33_ExamplesHaltOnHALT ==
    runlog.loaded =>
        /\ \A i \in 1..Steps : runlog.calls[i].ret \in {"true", "false"}
        /\ \A k \in 1..Steps : FirstFalse(k) =>
               HaltCall(k) /\ runlog.pre[k].instructionCount < maxInstructions
        /\ Steps > maxInstructions =>
               \E k \in 1..Steps : runlog.calls[k].ret = "false"

(***************************************************************************)
(* The machine after a refused store, and the program counter after every  *)
(* instruction (Spec).                                                     *)
(***************************************************************************)
\* the call being made is a step() that throws the protection error
StepRefusesStore ==
    /\ lastCall'.op = "step"
    /\ lastCall'.ret = "throws"
    /\ lastCall'.thrown.text = "Cannot write to protected memory address"

\* C34: a step() that throws the protection error fetched a STORE or
\* STOREI at the program counter p and leaves memory, accumulator,
\* callStack and instructionCount as they were and the program counter at
\* p + 1, the operand word.
C34_RefusedStoreLeavesMachine ==
    [][StepRefusesStore =>
        /\ OpcodeAtPC \in {OPCODES.STORE, OPCODES.STOREI}
        /\ instructionRegister' = OpcodeAtPC
        /\ UNCHANGED <<memory, accumulator, callStack, instructionCount>>
        /\ programCounter' = programCounter + 1]_vars

C34_Witness ==
    /\ lastCall.op = "step"
    /\ lastCall.ret = "throws"
    /\ lastCall.thrown = Err("Cannot write to protected memory address", 5)
    /\ instructionRegister = OPCODES.STORE
    /\ programCounter = 2
    /\ instructionCount = 1
    /\ accumulator = 1
    /\ memory[6] = 0

(***************************************************************************)
(* One instruction of every kind (SpecOpcodes): the programs loaded are    *)
(* a first instruction that sets the accumulator's sign, then every word   *)
(* value that is an opcode with every operand of Operands, and a word      *)
(* holding 5 for the indirect instructions to point through; and every     *)
(* opcode in the last word of the memory.  Protection is switched at any   *)
(* time, one program is loaded, and step() is called.                      *)
(***************************************************************************)
Operands == {-1, 0, 3, 5}

OpcodePrograms ==
    LET word(n) == toBalancedTernary(n)
        HALT == word(OPCODES.HALT)
    IN {<<word(first), word(op), word(x), word(5)>> :
            first \in {OPCODES.INC, OPCODES.DEC, OPCODES.NEG},
            op \in OpcodeValues, x \in Operands}
       \cup
       {<<word(OPCODES.JMP), word(7), HALT, HALT, HALT, HALT, HALT, word(op)>> :
            op \in OpcodeValues}

\* the one load of a run
OpcodeLoad ==
    \E programText \in OpcodePrograms :
        LET r == loadProgram(This, programText) IN
        /\ ~runlog.loaded
        /\ Becomes(r)
        /\ lastCall' = Called("loadProgram", r, FALSE)
        /\ runlog' = [NoRun EXCEPT !.loaded = TRUE]
        /\ UNCHANGED app

NextOpcodes ==
    \/ Step
    \/ OpcodeLoad
    \/ ProtectMemoryRange
    \/ UnprotectMemoryRange

SpecOpcodes == Init /\ [][NextOpcodes]_vars

\* the instruction at the program counter has its operand word in memory
OperandInMemory == programCounter + 1 < Len(memory)

\* the instruction at the program counter is a jump or a call that will
\* go to the address in its operand word
JumpTaken ==
    /\ OperandInMemory
    /\ OperandAtPC >= 0 /\ OperandAtPC < Len(memory)
    /\ CASE OpcodeAtPC = OPCODES.JMP -> TRUE
         [] OpcodeAtPC = OPCODES.JZ -> accumulator = 0
         [] OpcodeAtPC = OPCODES.JNZ -> accumulator # 0
         [] OpcodeAtPC = OPCODES.JNP -> accumulator > 0
         [] OpcodeAtPC = OPCODES.CALL -> Len(callStack) < maxCallDepth
         [] OTHER -> FALSE

\* where the program counter is after the step() being made, by the kind
\* of instruction at the program counter p; stores are those of Stores
AdvancesByKind(Stores) ==
    LET p == programCounter IN
    /\ OpcodeAtPC \in {OPCODES.ADD, OPCODES.SUB, OPCODES.LOAD, OPCODES.LOADI}
           => programCounter' = p + 2
    /\ (OpcodeAtPC \in {OPCODES.STORE, OPCODES.STOREI} /\ Stores)
           => programCounter' = p + 2
    /\ (OpcodeAtPC \in {OPCODES.JZ, OPCODES.JNZ, OPCODES.JNP} /\ ~JumpTaken)
           => programCounter' = p + 2
    /\ OpcodeAtPC \in {OPCODES.SHL, OPCODES.SHR, OPCODES.NEG, OPCODES.INC,
                       OPCODES.DEC}
           => programCounter' = p + 1
    /\ JumpTaken => programCounter' = OperandAtPC

\* C35 as stated: a step() that executes ADD, SUB, LOAD, STORE, LOADI,
\* STOREI or a conditional jump that is not taken at p ends with the program
\* counter at p + 2; one that executes SHL, SHR, NEG, INC or DEC ends at
\* p + 1; a taken jump or call with target t in memory ends at t.
C35_TwoWordInstructions ==
    [][StepExecutes => AdvancesByKind(TRUE)]_vars

\* C35, amended: the same, for the STORE and STOREI whose target is not a
\* protected word.
C35_TwoWordInstructionsUnlessRefused ==
    [][StepExecutes => AdvancesByKind(StoreTarget \notin protectedMemory)]_vars

C35_Witness ==
    /\ lastCall.op = "step"
    /\ lastCall.ret = "true"
    /\ instructionRegister = OPCODES.STOREI
    /\ memory[3] = 3
    /\ memory[4] = 5
    /\ memory[6] = 1
    /\ programCounter = 3
    /\ instructionCount = 2

(***************************************************************************)
(* A load that fails (Spec).                                               *)
(***************************************************************************)
\* C36: after a loadProgram that failed on token i, word j of memory is the
\* value of token j for every j < i, every other word is 0, and
\* accumulator, programCounter, instructionCount, callStack and the
\* history are as after a reset.
C36_FailedLoadIsPartial ==
    [][(lastCall'.op = "loadProgram" /\ lastCall'.ret = "throws") =>
        LET i == lastCall'.thrown.at IN
        /\ i >= 0 /\ i < Len(lastCall'.arg)
        /\ \A j \in 0..(Len(memory') - 1) :
               memory'[j + 1] = IF j < i THEN ValueOf(lastCall'.arg[j + 1]) ELSE 0
        /\ accumulator' = 0
        /\ programCounter' = 0
        /\ instructionCount' = 0
        /\ callStack' = <<>>
        /\ executionHistory' = <<>>]_vars

C36_Witness ==
    /\ lastCall.op = "loadProgram"
    /\ lastCall.ret = "throws"
    /\ lastCall.thrown.at = 1
    /\ memory = [Zeros(memorySize) EXCEPT ![1] = OPCODES.ADD]
    /\ breakpoints # {}
    /\ protectedMemory # {}
    /\ ~historyEnabled

(***************************************************************************)
(* The onStateChange callback of step() (SpecDebug).                       *)
(***************************************************************************)
\* the onStateChange callbacks a call fired, by their place among the
\* call's callbacks
StateChanges(call) ==
    {i \in 1..Len(call.events) : call.events[i].cb = "onStateChange"}

\* the step() being made halts before it completes an instruction: on the
\* instruction limit, an address breakpoint, a program counter outside the
\* memory, HALT, a CALL on a full call stack or a RET on an empty one
HaltsBeforeCompleting ==
    \/ instructionCount >= maxInstructions
    \/ programCounter \in breakpoints
    \/ ~PCInMemory
    \/ OpcodeAtPC = OPCODES.HALT
    \/ OpcodeAtPC = OPCODES.CALL /\ Len(callStack) >= maxCallDepth
    \/ OpcodeAtPC = OPCODES.RET /\ callStack = <<>>

\* C37: a step() that halts before completing an instruction fires no
\* onStateChange; every other step() (but one that throws) completes its
\* instruction and fires onStateChange exactly once, the callback finds
\* programCounter and instructionCount already updated, and it comes
\* before the onHalt 'End of memory reached' if there is one.
C37_StateChangeOncePerCompletedStep ==
    [][lastCall'.op = "step" =>
        IF HaltsBeforeCompleting
        THEN /\ StateChanges(lastCall') = {}
             /\ instructionCount' = instructionCount
        ELSE lastCall'.ret # "throws" =>
             /\ instructionCount' = instructionCount + 1
             /\ Cardinality(StateChanges(lastCall')) = 1
             /\ \A i \in StateChanges(lastCall') :
                    /\ lastCall'.seen[i] =
                           [programCounter |-> programCounter',
                            instructionCount |-> instructionCount + 1]
                    /\ \A j \in 1..Len(lastCall'.events) :
                           lastCall'.events[j].text = "End of memory reached"
                               => i < j]_vars

\* a conditional breakpoint halts the step and onStateChange still fires
C37_Witness ==
    /\ lastCall.op = "step"
    /\ lastCall.ret = "false"
    /\ Len(lastCall.events) = 2
    /\ lastCall.events[1] = conditionEvent(conditionalBreakpoints[1])
    /\ lastCall.events[2] = StateChange
    /\ lastCall.seen[2] = [programCounter |-> 1, instructionCount |-> 1]
    /\ programCounter = 1
    /\ accumulator = 1

(***************************************************************************)
(* The hitBreakpoint flag (SpecDebug).                                     *)
(***************************************************************************)
\* the call halted on an address breakpoint or on a conditional breakpoint
HaltedOnABreakpoint(call) ==
    /\ call.ret = "false"
    /\ \/ Fired(call, "onHalt", "Breakpoint hit at address")
       \/ Fired(call, "onHalt", "Conditional breakpoint: Accumulator")
       \/ Fired(call, "onHalt", "Conditional breakpoint: Memory")

\* C38: after every step() call hitBreakpoint tells whether that call
\* halted on an address breakpoint or a conditional breakpoint: it is true
\* after such a halt and false after a step() that executed normally or
\* halted for another reason.
C38_HitBreakpointTellsLastStep ==
    [][lastCall'.op = "step" =>
          (hitBreakpoint' <=> HaltedOnABreakpoint(lastCall'))]_vars

(***************************************************************************)
(* The alphabets of validateTernary and fromBalancedTernary (SpecCodec).   *)
(***************************************************************************)
\* C39: every string without whitespace that validateTernary accepts is
\* converted by fromBalancedTernary without an error, and a loadProgram
\* that fails fails with 'Invalid ternary at position', never with 'Error
\* parsing instruction'.
C39_ValidatedTokensConvert ==
    /\ (/\ lastCall.op = "fromValidatedTernary"
        /\ lastCall.valid
        /\ \A i \in 1..Len(lastCall.arg) : lastCall.arg[i] # " ")
           => lastCall.value.ok
    /\ (lastCall.op = "loadProgram" /\ lastCall.ret = "throws")
           => /\ lastCall.thrown.text = "Invalid ternary at position"
              /\ ~validateTernary(lastCall.arg[1])

C39_Witness ==
    /\ lastCall.op = "fromValidatedTernary"
    /\ lastCall.arg = <<"u2212", "1">>
    /\ lastCall.valid
    /\ lastCall.value.ok
    /\ lastCall.value.value = -2

====
